---- MODULE Spec2Model ----
(***************************************************************************)
(* Slot allocator (generate_schedule.py, build_schedule) and conflict      *)
(* auditor (check_conflicts.py) of the exam scheduler.                     *)
(*                                                                         *)
(* Encoding of time: a date is the number of days since 2025-11-03 (a      *)
(* Monday), a time of day is minutes since midnight, a datetime is         *)
(* day * 1440 + minutes.  CSV cells are strings; strptime, strftime,       *)
(* split and int are tables over the cell texts of the model.              *)
(***************************************************************************)
EXTENDS Integers, Sequences, FiniteSets, TLC

(* ------------------------------ bounds -------------------------------- *)
MaxItems == 2
MaxClassItems == 3
MaxRecords == 3
MaxFixRows == 2
MaxScarceItems == 3
MaxAulaRequests == 3
MaxTimeCellItems == 2
MaxDedupRows == 3

(* --------------------------- Konfigurasi ------------------------------ *)
START_DATE == 0
END_DATE == 4
SHIFT_DURATION_MIN == 120
ALLOWED_SHIFT_STARTS == <<450, 600, 780, 930>>
AULA_NAME == "AULA"
MinutesPerDay == 1440

Dt(d, m) == d * MinutesPerDay + m
DateOf(dt) == dt \div MinutesPerDay
TimeOf(dt) == dt % MinutesPerDay
Weekday(dt) == DateOf(dt) % 7

NoInterval == <<>>

\* the exception that time(h, m) raises, as the outcome of a call
ValueError == <<"ValueError">>

(* ----------------------- texts of dates and shifts -------------------- *)
\* datetime.strptime over the three formats "%d-%b-%y", "%d/%m/%Y",
\* "%d-%m-%Y": the day number of a date cell, -1 when no format matches.
StrptimeDate(tanggal) ==
    CASE tanggal = "03-Nov-25" -> 0
      [] tanggal = "3-Nov-25" -> 0
      [] tanggal = "03/11/2025" -> 0
      [] tanggal = "04-Nov-25" -> 1
      [] tanggal = "04/11/2025" -> 1
      [] tanggal = "05-Nov-25" -> 2
      [] tanggal = "06-Nov-25" -> 3
      [] tanggal = "07-Nov-25" -> 4
      [] tanggal = "10-Nov-25" -> 7
      [] OTHER -> -1

\* strftime("%d-%b-%y")
StrftimeDMY(dt) ==
    CASE DateOf(dt) = 0 -> "03-Nov-25"
      [] DateOf(dt) = 1 -> "04-Nov-25"
      [] DateOf(dt) = 2 -> "05-Nov-25"
      [] DateOf(dt) = 3 -> "06-Nov-25"
      [] DateOf(dt) = 4 -> "07-Nov-25"
      [] DateOf(dt) = 7 -> "10-Nov-25"

\* strftime("%Y-%m-%d")
StrftimeYMD(dt) ==
    CASE DateOf(dt) = 0 -> "2025-11-03"
      [] DateOf(dt) = 1 -> "2025-11-04"
      [] DateOf(dt) = 2 -> "2025-11-05"
      [] DateOf(dt) = 3 -> "2025-11-06"
      [] DateOf(dt) = 4 -> "2025-11-07"
      [] DateOf(dt) = 7 -> "2025-11-10"

\* shift.split("-") followed by strip and removal of blanks and tabs
SplitShift(shift) ==
    CASE shift = "07.30 - 09.30" -> <<"07.30", "09.30">>
      [] shift = "07.30-09.30" -> <<"07.30", "09.30">>
      [] shift = "08.30 - 10.30" -> <<"08.30", "10.30">>
      [] shift = "08.30-10.30" -> <<"08.30", "10.30">>
      [] shift = "10.00 - 12.00" -> <<"10.00", "12.00">>
      [] shift = "13.00 - 15.00" -> <<"13.00", "15.00">>
      [] shift = "15.30 - 17.30" -> <<"15.30", "17.30">>
      [] shift = "07:30 - 09:30" -> <<"07:30", "09:30">>
      [] shift = "07.30" -> <<"07.30">>
      [] shift = "07.30 - 09.30 - 11.30" -> <<"07.30", "09.30", "11.30">>
      [] shift = "07.30 - 9" -> <<"07.30", "9">>
      [] shift = "25.00 - 27.00" -> <<"25.00", "27.00">>
      [] shift = "25.00 - 9" -> <<"25.00", "9">>
      [] shift = "07.60 - 09.30" -> <<"07.60", "09.30">>
      [] shift = "07.30 - 24.00" -> <<"07.30", "24.00">>
      [] OTHER -> <<shift>>

\* map(int, token.split(".")): minutes of an "H.M" token, -1 when the
\* token does not unpack into two integers, OutOfRange when it does and
\* time(h, m) does not accept the hour or the minute
OutOfRange == -2

ParseHM(tok) ==
    CASE tok = "07.30" -> 450
      [] tok = "25.00" -> OutOfRange
      [] tok = "27.00" -> OutOfRange
      [] tok = "24.00" -> OutOfRange
      [] tok = "07.60" -> OutOfRange
      [] tok = "08.30" -> 510
      [] tok = "09.30" -> 570
      [] tok = "10.00" -> 600
      [] tok = "10.30" -> 630
      [] tok = "12.00" -> 720
      [] tok = "13.00" -> 780
      [] tok = "15.00" -> 900
      [] tok = "15.30" -> 930
      [] tok = "17.30" -> 1050
      [] OTHER -> -1

\* "%H.%M" of a time of day
FormatHM(m) ==
    CASE m = 450 -> "07.30"
      [] m = 510 -> "08.30"
      [] m = 570 -> "09.30"
      [] m = 600 -> "10.00"
      [] m = 630 -> "10.30"
      [] m = 720 -> "12.00"
      [] m = 780 -> "13.00"
      [] m = 900 -> "15.00"
      [] m = 930 -> "15.30"
      [] m = 1050 -> "17.30"

format_time_range(start_dt, end_dt) ==
    FormatHM(TimeOf(start_dt)) \o " - " \o FormatHM(TimeOf(end_dt))

weekday_name(dt) ==
    CASE Weekday(dt) = 0 -> "SENIN"
      [] Weekday(dt) = 1 -> "SELASA"
      [] Weekday(dt) = 2 -> "RABU"
      [] Weekday(dt) = 3 -> "KAMIS"
      [] Weekday(dt) = 4 -> "JUM'AT"
      [] Weekday(dt) = 5 -> "SABTU"
      [] Weekday(dt) = 6 -> "MINGGU"

\* parse_existing_datetime (the hari argument is not used by the code)
parse_existing_datetime(hari, tanggal, shift) ==
    IF tanggal = "" \/ shift = "" THEN NoInterval
    ELSE IF StrptimeDate(tanggal) = -1 THEN NoInterval
    ELSE LET parts == SplitShift(shift) IN
         IF Len(parts) # 2 THEN NoInterval
         ELSE IF ParseHM(parts[1]) = -1 \/ ParseHM(parts[2]) = -1 THEN NoInterval
         ELSE IF ParseHM(parts[1]) = OutOfRange \/ ParseHM(parts[2]) = OutOfRange
              THEN ValueError
         ELSE <<Dt(StrptimeDate(tanggal), ParseHM(parts[1])),
                Dt(StrptimeDate(tanggal), ParseHM(parts[2]))>>

\* check_conflicts.parse_time_range
parse_time_range(date_str, shift_str) ==
    IF date_str = "" \/ shift_str = "" THEN NoInterval
    ELSE IF StrptimeDate(date_str) = -1 THEN NoInterval
    ELSE LET parts == SplitShift(shift_str) IN
         IF Len(parts) # 2 THEN NoInterval
         ELSE IF ParseHM(parts[1]) = -1 \/ ParseHM(parts[2]) = -1 THEN NoInterval
         ELSE IF ParseHM(parts[1]) = OutOfRange \/ ParseHM(parts[2]) = OutOfRange
              THEN ValueError
         ELSE <<Dt(StrptimeDate(date_str), ParseHM(parts[1])),
                Dt(StrptimeDate(date_str), ParseHM(parts[2]))>>

\* kelas[:2]
Prefix2(kelas) ==
    CASE kelas = "IT-06-A" -> "IT"
      [] kelas = "IT-06-B" -> "IT"
      [] kelas = "IT-06-C" -> "IT"
      [] kelas = "SI-01-A" -> "SI"
      [] OTHER -> ""

\* order of Python strings on the prefixes of the model
StrRank(s) ==
    CASE s = "" -> 0
      [] s = "IT" -> 1
      [] s = "SI" -> 2

\* parse_int_safe
parse_int_safe(v) ==
    CASE v = "45" -> 45
      [] v = "50" -> 50
      [] v = "40" -> 40
      [] v = "30" -> 30
      [] OTHER -> 0

\* (bentuk_ujian or "").strip().lower()
Lower(b) ==
    CASE b = "Ujian Tulis" -> "ujian tulis"
      [] b = "UJIAN TULIS" -> "ujian tulis"
      [] b = "Ujian Lisan" -> "ujian lisan"
      [] OTHER -> b

\* room.endswith(suf)
EndsWith(room, suf) ==
    \/ room = suf
    \/ room = "GKU KELAS 2.08" /\ suf = "KELAS 2.08"
    \/ room = "GKU KELAS 2.09" /\ suf = "KELAS 2.09"
    \/ room = "GD KTT 2.08" /\ suf = "KTT 2.08"

(* ---------------------- generate_schedule.py rules --------------------- *)
BLACKLIST_MON_WED_SUFFIXES ==
    {"KELAS 2.08", "KELAS 2.07", "KELAS 2.06", "KELAS 2.05", "KELAS 2.04"}
BLACKLIST_MON_FRI_SUFFIXES == {"KELAS 2.09"}

is_within_uts_week(date_dt) ==
    START_DATE <= DateOf(date_dt) /\ DateOf(date_dt) <= END_DATE

is_room_blacklisted_on_date(room, date_dt) ==
    IF ~is_within_uts_week(date_dt) THEN FALSE
    ELSE \/ \E suf \in BLACKLIST_MON_FRI_SUFFIXES :
               EndsWith(room, suf) /\ Weekday(date_dt) <= 4
         \/ \E suf \in BLACKLIST_MON_WED_SUFFIXES :
               EndsWith(room, suf) /\ Weekday(date_dt) <= 2

\* room.strip().upper()
Upper(room) ==
    CASE room = "Aula" -> "AULA"
      [] OTHER -> room

is_aula(room) == Upper(room) = AULA_NAME

is_aula_time_allowed(date_dt, start_dt, end_dt) ==
    IF ~is_within_uts_week(date_dt) THEN FALSE
    ELSE IF Weekday(date_dt) = 0 THEN TRUE
    ELSE IF Weekday(date_dt) = 1
         THEN start_dt >= Dt(DateOf(date_dt), 780)
    ELSE FALSE

\* mutant of generate_daily_shifts: a shift runs on through the break
\* that follows it
generate_daily_shifts_WithGap(start_date) ==
    [i \in 1..Len(ALLOWED_SHIFT_STARTS) |->
        <<Dt(DateOf(start_date), ALLOWED_SHIFT_STARTS[i]),
          Dt(DateOf(start_date), ALLOWED_SHIFT_STARTS[i]) + SHIFT_DURATION_MIN + 30>>]

generate_daily_shifts(start_date) ==
    [i \in 1..Len(ALLOWED_SHIFT_STARTS) |->
        <<Dt(DateOf(start_date), ALLOWED_SHIFT_STARTS[i]),
          Dt(DateOf(start_date), ALLOWED_SHIFT_STARTS[i]) + SHIFT_DURATION_MIN>>]

RECURSIVE DatesFrom(_)
DatesFrom(cur) ==
    IF cur > END_DATE THEN <<>>
    ELSE IF cur % 7 < 5 THEN <<Dt(cur, 0)>> \o DatesFrom(cur + 1)
    ELSE DatesFrom(cur + 1)

\* mutant of iter_allowed_dates: the loop runs on to the Monday after END_DATE
iter_allowed_dates_PastEnd == DatesFrom(START_DATE) \o <<Dt(END_DATE + 3, 0)>>

iter_allowed_dates == DatesFrom(START_DATE)

aula_preferred_shifts(day_dt) ==
    LET slots == generate_daily_shifts(day_dt)
        order == IF Weekday(day_dt) = 0 THEN <<450, 600, 780, 930>>
                 ELSE <<780, 930, 450, 600>>
        present(t) == \E i \in 1..Len(slots) : TimeOf(slots[i][1]) = t
        bystart(t) == slots[CHOOSE i \in 1..Len(slots) : TimeOf(slots[i][1]) = t]
        kept == SelectSeq(order, present)
    IN [i \in 1..Len(kept) |-> bystart(kept[i])]

aula_preferred_dates ==
    LET dates == iter_allowed_dates
        isMon(d) == Weekday(d) = 0
        isTue(d) == Weekday(d) = 1
        isOther(d) == Weekday(d) \notin {0, 1}
    IN SelectSeq(dates, isMon) \o SelectSeq(dates, isTue) \o SelectSeq(dates, isOther)

(* ------------------------------- state -------------------------------- *)
VARIABLES
    ALL_ROOMS,              \* room roster loaded by main
    items,                  \* rows of the input CSV (parse_csv)
    order,                  \* items_with_index after the sort (input indices)
    pos,                    \* index into order of the next row of the main loop
    room_usage,             \* <<date_key, shift_key, room>> -> count
    room_occupants,         \* <<date_key, shift_key, room>> -> list of kelas
    class_usage,            \* kelas -> list of <<start_dt, end_dt>>
    class_daily_count,      \* <<kelas, date_key>> -> count
    generated_assignments,  \* output rows of build_schedule
    records,                \* rows read by check_conflicts.read_schedule
    class_conflicts,
    room_conflicts,
    blacklist_violations,
    dosen_conflicts,
    conflict_keys,          \* fix_conflicts: (kelas, tanggal, shift, kode) of the conflict files
    dosen_usage,            \* fix_conflicts: dosen -> list of <<start_dt, end_dt>>
    call,                   \* a call of a parser: its arguments and its outcome
    kelas_conflicts_csv,    \* kelas-conflicts.csv as written: header and rows
    pc

vars == <<ALL_ROOMS, items, order, pos, room_usage, room_occupants, class_usage,
          class_daily_count, generated_assignments, records, class_conflicts,
          room_conflicts, blacklist_violations, dosen_conflicts, conflict_keys,
          dosen_usage, call, kelas_conflicts_csv, pc>>

allocVars == <<room_usage, room_occupants, class_usage, class_daily_count>>
auditVars == <<records, class_conflicts, room_conflicts, blacklist_violations,
               dosen_conflicts,
              kelas_conflicts_csv>>
repairVars == <<conflict_keys, dosen_usage>>

NoCall == <<>>
NoFile == <<>>

(* ------------------------ defaultdict helpers ------------------------- *)
EmptyMap == <<>>
GetCount(m, k) == IF k \in DOMAIN m THEN m[k] ELSE 0
GetList(m, k) == IF k \in DOMAIN m THEN m[k] ELSE <<>>
IncCount(m, k) == IF k \in DOMAIN m THEN [m EXCEPT ![k] = @ + 1] ELSE m @@ (k :> 1)
AppendList(m, k, v) ==
    IF k \in DOMAIN m THEN [m EXCEPT ![k] = Append(@, v)] ELSE m @@ (k :> <<v>>)

Usage(ru, ro, cu, cd) ==
    [room_usage |-> ru, room_occupants |-> ro, class_usage |-> cu,
     class_daily_count |-> cd]

EmptyUsage == Usage(EmptyMap, EmptyMap, EmptyMap, EmptyMap)

\* class_usage[cls].append((s, e)); class_daily_count[cls][date_key] += 1
RegisterClass(U, cls, s, e, date_key) ==
    [U EXCEPT !.class_usage = AppendList(@, cls, <<s, e>>),
              !.class_daily_count = IncCount(@, <<cls, date_key>>)]

\* room_usage[date_key][shift_key][room] += 1; occupants append when kelas
RegisterRoom(U, date_key, shift_key, room, cls) ==
    [U EXCEPT !.room_usage = IncCount(@, <<date_key, shift_key, room>>),
              !.room_occupants =
                  IF cls # "" THEN AppendList(@, <<date_key, shift_key, room>>, cls)
                  ELSE @]

(* --------------------- build_schedule: pre-pass ----------------------- *)
PrePassItem(U, it) ==
    IF it.tanggal # "" /\ it.shift # "" THEN
        LET parsed == parse_existing_datetime(it.hari, it.tanggal, it.shift) IN
        IF parsed = NoInterval THEN U
        ELSE LET start_dt == parsed[1]
                 end_dt == parsed[2]
                 date_key == StrftimeYMD(start_dt)
                 shift_key == format_time_range(start_dt, end_dt)
                 U1 == IF it.kelas # ""
                       THEN RegisterClass(U, it.kelas, start_dt, end_dt, date_key)
                       ELSE U
             IN IF it.ruangan # ""
                THEN RegisterRoom(U1, date_key, shift_key, it.ruangan, it.kelas)
                ELSE U1
    ELSE U

RECURSIVE PrePassFold(_, _, _)
PrePassFold(U, its, i) ==
    IF i > Len(its) THEN U ELSE PrePassFold(PrePassItem(U, its[i]), its, i + 1)

(* ----------------------- build_schedule: sort ------------------------- *)
IsUjianTulis(bentuk) == Lower(bentuk) = "ujian tulis"

\* mutant of sort_key: the headcount is taken ascending
sort_key_SmallFirst(it0) ==
    LET is_tulis0 == IsUjianTulis(it0.bentuk_ujian)
        has_shift0 == it0.hari # "" /\ it0.tanggal # "" /\ it0.shift # ""
        aula_cand == is_tulis0 /\ ~has_shift0
    IN <<IF aula_cand THEN 1 ELSE 0, StrRank(Prefix2(it0.kelas)),
         parse_int_safe(it0.jumlah_mhs)>>

sort_key(it0) ==
    LET is_tulis0 == IsUjianTulis(it0.bentuk_ujian)
        has_shift0 == it0.hari # "" /\ it0.tanggal # "" /\ it0.shift # ""
        aula_cand == is_tulis0 /\ ~has_shift0
    IN <<IF aula_cand THEN 1 ELSE 0, StrRank(Prefix2(it0.kelas)),
         0 - parse_int_safe(it0.jumlah_mhs)>>

\* tuple comparison of Python on the sort keys
KeyLess(a, b) ==
    \/ a[1] < b[1]
    \/ a[1] = b[1] /\ a[2] < b[2]
    \/ a[1] = b[1] /\ a[2] = b[2] /\ a[3] < b[3]

\* list.sort is stable: i goes after every index whose key is not greater
RECURSIVE InsertStable(_, _, _)
InsertStable(sorted, i, its) ==
    IF sorted = <<>> THEN <<i>>
    ELSE IF KeyLess(sort_key(its[i]), sort_key(its[Head(sorted)]))
         THEN <<i>> \o sorted
         ELSE <<Head(sorted)>> \o InsertStable(Tail(sorted), i, its)

RECURSIVE SortFrom(_, _, _)
SortFrom(sorted, i, its) ==
    IF i > Len(its) THEN sorted
    ELSE SortFrom(InsertStable(sorted, i, its), i + 1, its)

SortedIndices(its) == SortFrom(<<>>, 1, its)

(* ------------------ build_schedule: nested helpers -------------------- *)
\* mutant of is_class_conflict: the daily limit is not looked at
is_class_conflict_NoDailyLimit(U, kelas, start_dt, end_dt) ==
    IF kelas = "" THEN FALSE
    ELSE \E k \in 1..Len(GetList(U.class_usage, kelas)) :
             ~(\/ end_dt <= GetList(U.class_usage, kelas)[k][1]
               \/ start_dt >= GetList(U.class_usage, kelas)[k][2])

is_class_conflict(U, kelas, start_dt, end_dt) ==
    IF kelas = "" THEN FALSE
    ELSE \/ \E k \in 1..Len(GetList(U.class_usage, kelas)) :
               ~(\/ end_dt <= GetList(U.class_usage, kelas)[k][1]
                 \/ start_dt >= GetList(U.class_usage, kelas)[k][2])
         \/ GetCount(U.class_daily_count, <<kelas, StrftimeYMD(start_dt)>>) >= 2

NoRoom == ""

IsBigTulis(bentuk_ujian, jumlah_mhs) ==
    IsUjianTulis(bentuk_ujian) /\ jumlah_mhs > 0 /\ jumlah_mhs >= 40

\* the rooms of the roster that are not blacklisted on the date
UsableRooms(rooms, date_dt) ==
    {r \in {rooms[i] : i \in 1..Len(rooms)} : ~is_room_blacklisted_on_date(r, date_dt)}

\* aula_candidates of pick_free_room
AulaCandidates(U, rooms, date_dt, date_key, shift_key, start_dt, end_dt, bentuk_ujian, allow_aula, jumlah_mhs) ==
    {r \in UsableRooms(rooms, date_dt) :
        /\ is_aula(r)
        /\ allow_aula
        /\ IsBigTulis(bentuk_ujian, jumlah_mhs)
        /\ GetCount(U.room_usage, <<date_key, shift_key, r>>) < 2
        /\ is_aula_time_allowed(date_dt, start_dt, end_dt)}

\* normal_candidates of pick_free_room
NormalCandidates(U, rooms, date_dt, date_key, shift_key) ==
    {r \in UsableRooms(rooms, date_dt) :
        ~is_aula(r) /\ GetCount(U.room_usage, <<date_key, shift_key, r>>) = 0}

\* mutant of pick_free_room: ordinary rooms first for every record
pick_free_room_NormalFirst(U, rooms, date_dt, date_key, shift_key, start_dt, end_dt, bentuk_ujian, allow_aula, jumlah_mhs) ==
    LET aula_candidates ==
            AulaCandidates(U, rooms, date_dt, date_key, shift_key, start_dt, end_dt,
                           bentuk_ujian, allow_aula, jumlah_mhs)
        normal_candidates == NormalCandidates(U, rooms, date_dt, date_key, shift_key)
    IN IF normal_candidates # {} THEN normal_candidates
       ELSE IF aula_candidates # {} THEN aula_candidates
       ELSE {NoRoom}

\* the set of values pick_free_room can return (random.choice); NoRoom is None
pick_free_room(U, rooms, date_dt, date_key, shift_key, start_dt, end_dt, bentuk_ujian, allow_aula, jumlah_mhs) ==
    LET aula_candidates ==
            AulaCandidates(U, rooms, date_dt, date_key, shift_key, start_dt, end_dt,
                           bentuk_ujian, allow_aula, jumlah_mhs)
        normal_candidates == NormalCandidates(U, rooms, date_dt, date_key, shift_key)
        aula_pick == IF AULA_NAME \in aula_candidates THEN {AULA_NAME}
                     ELSE aula_candidates
    IN IF aula_candidates = {} /\ normal_candidates = {} THEN {NoRoom}
       ELSE IF IsBigTulis(bentuk_ujian, jumlah_mhs)
            THEN IF aula_candidates # {} THEN aula_pick ELSE normal_candidates
            ELSE IF normal_candidates # {} THEN normal_candidates ELSE aula_pick

\* a row of generated_assignments; idx is the index of enumerate(items)
OutRow(idx, it, hari, tanggal, shift, ruangan) ==
    [idx |-> idx, HARI |-> hari, TANGGAL |-> tanggal, SHIFT |-> shift,
     RUANGAN |-> ruangan, KODE |-> it.kode_mk, NAMA |-> it.nama_mk,
     NAMA_DOSEN |-> it.nama_dosen,
     KELAS |-> it.kelas, BENTUK_UJIAN |-> it.bentuk_ujian,
     JUMLAH_MAHASISWA |-> it.jumlah_mhs]

Outcome(U, row) == [u |-> U, row |-> row]

RECURSIVE Flatten(_)
Flatten(ss) == IF ss = <<>> THEN <<>> ELSE Head(ss) \o Flatten(Tail(ss))

\* the (start, end) pairs of a nested "for day_dt in dates: for shift in shifts"
AulaOrderSlots ==
    Flatten([i \in 1..Len(aula_preferred_dates) |->
                aula_preferred_shifts(aula_preferred_dates[i])])

NaturalOrderSlots ==
    Flatten([i \in 1..Len(iter_allowed_dates) |->
                generate_daily_shifts(iter_allowed_dates[i])])

\* index of the first TRUE of a list of flags, 0 when there is none
FirstIndex(flags) ==
    IF \E i \in 1..Len(flags) : flags[i]
    THEN CHOOSE i \in 1..Len(flags) : flags[i] /\ \A j \in 1..(i - 1) : ~flags[j]
    ELSE 0

(* ------------------- build_schedule: the loop body -------------------- *)
IsFullyFilled(it) ==
    it.hari # "" /\ it.tanggal # "" /\ it.shift # "" /\ it.ruangan # ""

\* mutant of Step1Result: the row is written in the spelling of the
\* generated rows when its date and shift parse
Step1Result_Normalised(U, idx, it) ==
    LET parsed_full == parse_existing_datetime(it.hari, it.tanggal, it.shift)
        s_dt == parsed_full[1]
        e_dt == parsed_full[2]
        date_key == StrftimeYMD(s_dt)
        shift_key_state == format_time_range(s_dt, e_dt)
        U1 == IF it.kelas # ""
              THEN RegisterClass(U, it.kelas, s_dt, e_dt, date_key)
              ELSE U
        U2 == RegisterRoom(U1, date_key, shift_key_state, it.ruangan, it.kelas)
    IN IF parsed_full # NoInterval
       THEN Outcome(U2, OutRow(idx, it, weekday_name(s_dt), StrftimeDMY(s_dt),
                               shift_key_state, it.ruangan))
       ELSE Outcome(U, OutRow(idx, it, it.hari, it.tanggal, it.shift, it.ruangan))

\* mutant of Step1Result: the row is written and the usage maps are left alone
Step1Result_NotRegistered(U, idx, it) ==
    Outcome(U, OutRow(idx, it, it.hari, it.tanggal, it.shift, it.ruangan))

\* all of hari, tanggal, shift, ruangan given: the row is written as it is
Step1Result(U, idx, it) ==
    LET parsed_full == parse_existing_datetime(it.hari, it.tanggal, it.shift)
        s_dt == parsed_full[1]
        e_dt == parsed_full[2]
        date_key == StrftimeYMD(s_dt)
        shift_key_state == format_time_range(s_dt, e_dt)
        U1 == IF it.kelas # ""
              THEN RegisterClass(U, it.kelas, s_dt, e_dt, date_key)
              ELSE U
        U2 == RegisterRoom(U1, date_key, shift_key_state, it.ruangan, it.kelas)
    IN Outcome(IF parsed_full # NoInterval THEN U2 ELSE U,
               OutRow(idx, it, it.hari, it.tanggal, it.shift, it.ruangan))

\* mutant of Step2Results: pick_free_room is called with allow_aula = True
Step2Results_AllowAula(U, rooms, idx, it) ==
    LET parsed == parse_existing_datetime(it.hari, it.tanggal, it.shift)
        start_dt == parsed[1]
        end_dt == parsed[2]
        date_key == StrftimeYMD(start_dt)
        shift_key == format_time_range(start_dt, end_dt)
        choices == IF it.ruangan # "" THEN {it.ruangan}
                   ELSE pick_free_room(U, rooms, start_dt, date_key, shift_key,
                                       start_dt, end_dt, it.bentuk_ujian, TRUE,
                                       parse_int_safe(it.jumlah_mhs))
        U1 == IF it.kelas # ""
              THEN RegisterClass(U, it.kelas, start_dt, end_dt, date_key)
              ELSE U
    IN {Outcome(IF room # NoRoom
                THEN RegisterRoom(U1, date_key, shift_key, room, it.kelas)
                ELSE U1,
                OutRow(idx, it, weekday_name(start_dt), StrftimeDMY(start_dt),
                       shift_key, room)) : room \in choices}

\* date and shift given and parseable: the time is kept, a room is looked for
Step2Results(U, rooms, idx, it) ==
    LET parsed == parse_existing_datetime(it.hari, it.tanggal, it.shift)
        start_dt == parsed[1]
        end_dt == parsed[2]
        date_key == StrftimeYMD(start_dt)
        shift_key == format_time_range(start_dt, end_dt)
        choices == IF it.ruangan # "" THEN {it.ruangan}
                   ELSE pick_free_room(U, rooms, start_dt, date_key, shift_key,
                                       start_dt, end_dt, it.bentuk_ujian, FALSE,
                                       parse_int_safe(it.jumlah_mhs))
        U1 == IF it.kelas # ""
              THEN RegisterClass(U, it.kelas, start_dt, end_dt, date_key)
              ELSE U
    IN {Outcome(IF room # NoRoom
                THEN RegisterRoom(U1, date_key, shift_key, room, it.kelas)
                ELSE U1,
                OutRow(idx, it, weekday_name(start_dt), StrftimeDMY(start_dt),
                       shift_key, room)) : room \in choices}

\* the row placed in slot (s_start, s_end) and room by step 3
PlaceResult(U, idx, it, s_start, s_end, room) ==
    LET date_key == StrftimeYMD(s_start)
        shift_key == format_time_range(s_start, s_end)
    IN Outcome(RegisterRoom(RegisterClass(U, it.kelas, s_start, s_end, date_key),
                            date_key, shift_key, room, it.kelas),
               OutRow(idx, it, weekday_name(s_start), StrftimeDMY(s_start),
                      shift_key, room))

\* 1) pairing into an AULA slot that already has one occupant
PairingAccepts(U, it, s_start, s_end) ==
    LET date_key == StrftimeYMD(s_start)
        shift_key == format_time_range(s_start, s_end)
        aula_count == GetCount(U.room_usage, <<date_key, shift_key, AULA_NAME>>)
        occupants == GetList(U.room_occupants, <<date_key, shift_key, AULA_NAME>>)
        prefer == /\ occupants # <<>>
                  /\ Prefix2(it.kelas) # ""
                  /\ Prefix2(occupants[1]) # ""
                  /\ Prefix2(it.kelas) = Prefix2(occupants[1])
    IN /\ ~is_class_conflict(U, it.kelas, s_start, s_end)
       /\ IsUjianTulis(it.bentuk_ujian)
       /\ parse_int_safe(it.jumlah_mhs) >= 40
       /\ aula_count = 1
       /\ is_aula_time_allowed(s_start, s_start, s_end)
       /\ prefer

PairingIndex(U, it) ==
    FirstIndex([i \in 1..Len(AulaOrderSlots) |->
        PairingAccepts(U, it, AulaOrderSlots[i][1], AulaOrderSlots[i][2])])

\* 2) normal allocation: the rooms the record can get in one candidate slot
RoomsAtSlot(U, rooms, it, s_start, s_end) ==
    LET date_key == StrftimeYMD(s_start)
        shift_key == format_time_range(s_start, s_end)
        current == GetCount(U.room_usage, <<date_key, shift_key, it.ruangan>>)
    IN IF is_class_conflict(U, it.kelas, s_start, s_end) THEN {}
       ELSE IF it.ruangan # ""
            THEN IF is_room_blacklisted_on_date(it.ruangan, s_start) THEN {}
                 ELSE IF is_aula(it.ruangan)
                      THEN IF is_aula_time_allowed(s_start, s_start, s_end) /\ current < 2
                           THEN {it.ruangan} ELSE {}
                      ELSE IF current = 0 THEN {it.ruangan} ELSE {}
            ELSE pick_free_room(U, rooms, s_start, date_key, shift_key, s_start, s_end,
                                it.bentuk_ujian, TRUE, parse_int_safe(it.jumlah_mhs))
                 \ {NoRoom}

CandidateSlots(it) ==
    LET is_aula_candidate ==
            IsUjianTulis(it.bentuk_ujian) /\ parse_int_safe(it.jumlah_mhs) > 0
    IN IF is_aula_candidate THEN AulaOrderSlots ELSE NaturalOrderSlots

NormalIndex(U, rooms, it) ==
    LET slots == CandidateSlots(it)
    IN FirstIndex([i \in 1..Len(slots) |->
           RoomsAtSlot(U, rooms, it, slots[i][1], slots[i][2]) # {}])

\* mutant of UnassignedResult: the cells of the input row are written back
UnassignedResult_KeepsCells(U, idx, it) ==
    Outcome(U, OutRow(idx, it, it.hari, it.tanggal, it.shift, it.ruangan))

\* "if not assigned": the row is written without day, date, shift and room
UnassignedResult(U, idx, it) == Outcome(U, OutRow(idx, it, "", "", "", ""))

Step3Results(U, rooms, idx, it) ==
    LET p == PairingIndex(U, it)
        n == NormalIndex(U, rooms, it)
        slots == CandidateSlots(it)
    IN IF p > 0
       THEN {PlaceResult(U, idx, it, AulaOrderSlots[p][1], AulaOrderSlots[p][2],
                         AULA_NAME)}
       ELSE IF n > 0
            THEN {PlaceResult(U, idx, it, slots[n][1], slots[n][2], room) :
                     room \in RoomsAtSlot(U, rooms, it, slots[n][1], slots[n][2])}
            ELSE {UnassignedResult(U, idx, it)}

\* the body of "for _, it in items_with_index"
LoopBody(U, rooms, idx, it) ==
    IF IsFullyFilled(it) THEN {Step1Result(U, idx, it)}
    ELSE IF parse_existing_datetime(it.hari, it.tanggal, it.shift) # NoInterval
         THEN Step2Results(U, rooms, idx, it)
         ELSE Step3Results(U, rooms, idx, it)

(* ------------------------------ inputs -------------------------------- *)
CourseCode(i) == <<"MK1", "MK2", "MK3", "MK4", "MK5">>[i]

Item(kelas, dosen, bentuk, mhs, hari, tanggal, shift, ruangan) ==
    [kode_mk |-> "", nama_mk |-> "", nama_dosen |-> dosen, kelas |-> kelas, hari |-> hari,
     tanggal |-> tanggal, shift |-> shift, ruangan |-> ruangan,
     bentuk_ujian |-> bentuk, jumlah_mhs |-> mhs]

\* rows without day, date and shift
FreshRows ==
    {Item(k, d, f[1], f[2], "", "", "", "") :
        k \in {"IT-06-A", "IT-06-B", "SI-01-A"}, d \in {"Dosen A", "Dosen B"},
        f \in {<<"Ujian Tulis", "45">>, <<"Ujian Lisan", "30">>}}
    \cup
    {Item(k, "Dosen A", f[1], f[2], "", "", "", "AULA") :
        k \in {"IT-06-A", "IT-06-B", "SI-01-A"},
        f \in {<<"Ujian Tulis", "45">>, <<"Ujian Lisan", "30">>}}

\* rows that carry a date and a shift
FixedRows ==
    {Item(k[1], k[2], "Ujian Tulis", "45", "SENIN", "03-Nov-25", "07.30 - 09.30", r) :
        k \in {<<"IT-06-A", "Dosen A">>, <<"SI-01-A", "Dosen B">>},
        r \in {"GKU 1.01", "AULA", ""}}
    \cup
    {Item("IT-06-A", "Dosen A", "Ujian Tulis", "45", "SENIN", "3-Nov-25",
          "07.30-09.30", "GKU 1.01"),
     Item("IT-06-A", "Dosen A", "Ujian Tulis", "45", "", "03-Nov-25",
          "07.30 - 09.30", "GKU 1.01"),
     Item("IT-06-A", "Dosen A", "Ujian Tulis", "45", "SENIN", "2025-11-03",
          "07.30 - 09.30", "GKU 1.01")}

InputRows == FreshRows \cup FixedRows

Rosters == {<<"GKU 1.01", "KTT 2.08", "AULA">>, <<"GKU 1.01", "GKU KELAS 2.08">>}

CourseName(i) == <<"Kalkulus", "Fisika", "Basis Data", "Jaringan", "Statistika">>[i]

\* the rows of one file carry distinct course codes and names
WithCodes(rows) ==
    [i \in DOMAIN rows |->
        [rows[i] EXCEPT !.kode_mk = CourseCode(i), !.nama_mk = CourseName(i)]]

InitWith(rowSpace, maxLen, rosters) ==
    /\ ALL_ROOMS \in rosters
    /\ \E n \in 1..maxLen : \E rows \in [1..n -> rowSpace] : items = WithCodes(rows)
    /\ order = <<>>
    /\ pos = 1
    /\ room_usage = EmptyMap
    /\ room_occupants = EmptyMap
    /\ class_usage = EmptyMap
    /\ class_daily_count = EmptyMap
    /\ generated_assignments = <<>>
    /\ records = <<>>
    /\ class_conflicts = <<>>
    /\ room_conflicts = <<>>
    /\ blacklist_violations = <<>>
    /\ dosen_conflicts = <<>>
    /\ conflict_keys = {}
    /\ dosen_usage = EmptyMap
    /\ call = NoCall
    /\ kelas_conflicts_csv = NoFile
    /\ pc = "prepass"

Init == InitWith(InputRows, MaxItems, Rosters)

\* inputs for the class constraint: two classes of one prefix, rows without
\* time, a row with a fixed time and no room, a pre-filled row off the shift
\* grid, a row without class
ClassRows ==
    {Item(k, "Dosen A", f[1], f[2], "", "", "", "") :
        k \in {"IT-06-A", "IT-06-B"},
        f \in {<<"Ujian Tulis", "45">>, <<"Ujian Lisan", "30">>}}
    \cup
    {Item("IT-06-A", "Dosen A", "Ujian Lisan", "30", "SENIN", "03-Nov-25",
          "07.30 - 09.30", ""),
     Item("IT-06-A", "Dosen A", "Ujian Lisan", "30", "SENIN", "03-Nov-25",
          "08.30 - 10.30", "GKU 1.01"),
     Item("", "Dosen A", "Ujian Lisan", "30", "", "", "", "")}

ClassRosters == {<<"GKU 1.01", "KTT 2.08", "AULA">>}

\* inputs for re-running the allocator on a schedule: the pre-filled rows, a
\* pre-filled row on Tuesday afternoon, one row that still has no time and two
\* pre-filled rows in one slot of a room that is blacklisted on that date
FilledRows ==
    FixedRows
    \cup
    {Item("IT-06-B", "Dosen A", "Ujian Lisan", "30", "SELASA", "04-Nov-25",
          "13.00 - 15.00", "GKU 1.01"),
     Item("IT-06-B", "Dosen A", "Ujian Lisan", "30", "", "", "", ""),
     Item("IT-06-B", "Dosen A", "Ujian Lisan", "30", "SENIN", "03-Nov-25",
          "10.00 - 12.00", "GKU KELAS 2.08"),
     Item("SI-01-A", "Dosen B", "Ujian Tulis", "45", "SENIN", "03-Nov-25",
          "10.00 - 12.00", "GKU KELAS 2.08")}

InitFilled == InitWith(FilledRows, MaxItems, Rosters)

\* rosters for rows with a fixed time: one ordinary room beside the
\* auditorium, a room blacklisted on Monday, no auditorium
FixedTimeRosters ==
    {<<"GKU 1.01", "AULA">>, <<"GKU 1.01", "GKU KELAS 2.08", "AULA">>,
     <<"GKU 1.01", "KTT 2.08">>}

InitFixedTime == InitWith(FilledRows, MaxItems, FixedTimeRosters)

\* inputs for rosters that are short of rooms: rows without time, a row
\* that carries a day name only, a row with all four cells
ScarceRows ==
    {Item("IT-06-A", "Dosen A", "Ujian Lisan", "30", "", "", "", ""),
     Item("IT-06-A", "Dosen A", "Ujian Tulis", "45", "", "", "", ""),
     Item("IT-06-B", "Dosen B", "Ujian Tulis", "50", "", "", "", ""),
     Item("SI-01-A", "Dosen B", "Ujian Lisan", "30", "SENIN", "", "", ""),
     Item("SI-01-A", "Dosen B", "Ujian Tulis", "45", "SENIN", "03-Nov-25",
          "07.30 - 09.30", "AULA")}

\* the auditorium alone, a room blacklisted from Monday to Friday, both,
\* and one ordinary room
ScarceRosters ==
    {<<"AULA">>, <<"GKU KELAS 2.09">>, <<"GKU KELAS 2.09", "AULA">>, <<"GKU 1.01">>}

InitScarce == InitWith(ScarceRows, MaxScarceItems, ScarceRosters)

\* inputs for the time cells: every combination of an empty, a readable and
\* an unreadable date with an empty, a readable and an unreadable shift, with
\* and without a room; one ordinary room, or one room blacklisted all week
TimeCellRows ==
    {Item("IT-06-A", "Dosen A", "Ujian Lisan", "30", "SENIN", t, s, r) :
        t \in {"", "03-Nov-25", "2025-11-03"},
        s \in {"", "07.30 - 09.30", "07.30"},
        r \in {"", "GKU 1.01"}}

TimeCellRosters == {<<"GKU 1.01">>, <<"GKU KELAS 2.09">>}

InitTimeCells == InitWith(TimeCellRows, MaxTimeCellItems, TimeCellRosters)

\* written exams of three classes of one prefix that ask for the auditorium,
\* with Monday 03-Nov-25 07.30 - 09.30 filled in and without any time
AulaRequestRows ==
    {Item(k[1], k[2], "Ujian Tulis", k[3], t[1], t[2], t[3], "AULA") :
        k \in {<<"IT-06-A", "Dosen A", "45">>, <<"IT-06-B", "Dosen B", "50">>,
               <<"IT-06-C", "Dosen A", "45">>},
        t \in {<<"SENIN", "03-Nov-25", "07.30 - 09.30">>, <<"", "", "">>}}

AulaRequestRosters == {<<"GKU 1.01", "AULA">>}

InitAulaRequests == InitWith(AulaRequestRows, MaxAulaRequests, AulaRequestRosters)

InitClass == InitWith(ClassRows, MaxClassItems, ClassRosters)

\* inputs for requested rooms: written exams of two prefixes without time,
\* with and without a requested ordinary room, an oral exam that asks for the
\* room, and rows that bring their date and shift along with the room
RequestedRoomRows ==
    {Item(k[1], k[2], "Ujian Tulis", k[3], "", "", "", r) :
        k \in {<<"IT-06-A", "Dosen A", "50">>, <<"IT-06-B", "Dosen B", "45">>,
               <<"SI-01-A", "Dosen B", "45">>},
        r \in {"", "GKU 1.01"}}
    \cup
    {Item("IT-06-B", "Dosen A", "Ujian Lisan", "30", "", "", "", "GKU 1.01"),
     Item("IT-06-A", "Dosen A", "Ujian Lisan", "30", "", "03-Nov-25",
          "07.30 - 09.30", "GKU 1.01"),
     Item("SI-01-A", "Dosen B", "Ujian Lisan", "30", "SENIN", "03-Nov-25",
          "07.30 - 09.30", "GKU 1.01")}

RequestedRoomRosters == {<<"GKU 1.01", "AULA">>, <<"GKU 1.02", "AULA">>}

InitRequestedRoom == InitWith(RequestedRoomRows, MaxItems, RequestedRoomRosters)

(* ------------------------ build_schedule actions ---------------------- *)
CurrentUsage == Usage(room_usage, room_occupants, class_usage, class_daily_count)

SetUsage(U) ==
    /\ room_usage' = U.room_usage
    /\ room_occupants' = U.room_occupants
    /\ class_usage' = U.class_usage
    /\ class_daily_count' = U.class_daily_count

\* "Kumpulkan existing jadwal bila ada"
PrePass ==
    /\ pc = "prepass"
    /\ SetUsage(PrePassFold(EmptyUsage, items, 1))
    /\ pc' = "sort"
    /\ UNCHANGED <<ALL_ROOMS, items, order, pos, generated_assignments>>
    /\ UNCHANGED auditVars
    /\ UNCHANGED call
    /\ UNCHANGED repairVars

\* items_with_index.sort(key=sort_key)
SortItems ==
    /\ pc = "sort"
    /\ order' = SortedIndices(items)
    /\ pos' = 1
    /\ pc' = "loop"
    /\ UNCHANGED <<ALL_ROOMS, items, generated_assignments>>
    /\ UNCHANGED allocVars
    /\ UNCHANGED auditVars
    /\ UNCHANGED call
    /\ UNCHANGED repairVars

\* one iteration of the main loop; the loop ends after the last row
ProcessItem ==
    /\ pc = "loop"
    /\ pos <= Len(order)
    /\ \E o \in LoopBody(CurrentUsage, ALL_ROOMS, order[pos], items[order[pos]]) :
          /\ SetUsage(o.u)
          /\ generated_assignments' = Append(generated_assignments, o.row)
    /\ pos' = pos + 1
    /\ pc' = IF pos = Len(order) THEN "done" ELSE "loop"
    /\ UNCHANGED <<ALL_ROOMS, items, order>>
    /\ UNCHANGED auditVars
    /\ UNCHANGED call
    /\ UNCHANGED repairVars

NextAlloc == PrePass \/ SortItems \/ ProcessItem

SpecAlloc == Init /\ [][NextAlloc]_vars
SpecClass == InitClass /\ [][NextAlloc]_vars
SpecFilled == InitFilled /\ [][NextAlloc]_vars
SpecFixedTime == InitFixedTime /\ [][NextAlloc]_vars
SpecScarce == InitScarce /\ [][NextAlloc]_vars
SpecAulaRequests == InitAulaRequests /\ [][NextAlloc]_vars
SpecTimeCells == InitTimeCells /\ [][NextAlloc]_vars
SpecRequestedRoom == InitRequestedRoom /\ [][NextAlloc]_vars

\* build_schedule runs on one thread until it returns: a step that can be
\* taken is taken.  This is WF_vars(NextAlloc) written out: a step of
\* NextAlloc is possible exactly while pc # "done".
SpecScarceFair == SpecScarce /\ ([]<>(pc = "done") \/ []<><<NextAlloc>>_vars)

(* ========================= check_conflicts.py ========================== *)
CC_BLACKLIST_MON_WED_SUFFIXES ==
    {"KTT 2.08", "KTT 2.07", "KTT 2.06", "KTT 2.05", "KTT 2.04"}
CC_BLACKLIST_MON_FRI_SUFFIXES == {"KTT 2.09"}
CC_START_DATE == 0
CC_END_DATE == 4

cc_is_within_uts_week(date_dt) ==
    CC_START_DATE <= DateOf(date_dt) /\ DateOf(date_dt) <= CC_END_DATE

\* mutant of cc_is_room_blacklisted_on_date: the exam week is not looked at
cc_is_room_blacklisted_on_date_AnyWeek(room, date_dt) ==
    \/ \E suf \in CC_BLACKLIST_MON_FRI_SUFFIXES :
          EndsWith(room, suf) /\ Weekday(date_dt) <= 4
    \/ \E suf \in CC_BLACKLIST_MON_WED_SUFFIXES :
          EndsWith(room, suf) /\ Weekday(date_dt) <= 2

cc_is_room_blacklisted_on_date(room, date_dt) ==
    IF ~cc_is_within_uts_week(date_dt) THEN FALSE
    ELSE \/ \E suf \in CC_BLACKLIST_MON_FRI_SUFFIXES :
               EndsWith(room, suf) /\ Weekday(date_dt) <= 4
         \/ \E suf \in CC_BLACKLIST_MON_WED_SUFFIXES :
               EndsWith(room, suf) /\ Weekday(date_dt) <= 2

\* mutant of Overlap: only two equal intervals overlap
Overlap_EqualOnly(s1, e1, s2, e2) == s1 = s2 /\ e1 = e2

\* overlap = not (e1 <= s2 or s1 >= e2)
Overlap(s1, e1, s2, e2) == ~(e1 <= s2 \/ s1 >= e2)

\* one rec of read_schedule from one row of the schedule file
ReadRecord(row) ==
    [HARI |-> row.HARI, TANGGAL |-> row.TANGGAL, SHIFT |-> row.SHIFT,
     RUANGAN |-> row.RUANGAN, KODE |-> row.KODE, NAMA |-> row.NAMA,
     NAMA_DOSEN |-> row.NAMA_DOSEN, KELAS |-> row.KELAS,
     INTERVAL |-> parse_time_range(row.TANGGAL, row.SHIFT)]

read_schedule(rows) == [i \in 1..Len(rows) |-> ReadRecord(rows[i])]

DedupKey(rec) == <<rec.KELAS, rec.TANGGAL, rec.SHIFT, rec.KODE>>

RECURSIVE DedupFrom(_, _, _)
DedupFrom(recs, seen, deduped) ==
    IF recs = <<>> THEN deduped
    ELSE IF DedupKey(Head(recs)) \in seen
         THEN DedupFrom(Tail(recs), seen, deduped)
         ELSE DedupFrom(Tail(recs), seen \cup {DedupKey(Head(recs))},
                        Append(deduped, Head(recs)))

\* mutant of deduplicate_records: of the records of one key the last stays
deduplicate_records_KeepsLast(recs) ==
    LET Reverse(q) == [i \in 1..Len(q) |-> q[Len(q) + 1 - i]]
    IN Reverse(DedupFrom(Reverse(recs), {}, <<>>))

deduplicate_records(recs) == DedupFrom(recs, {}, <<>>)

\* the keys of a defaultdict(list) in insertion order
RECURSIVE KeysInOrder(_, _)
KeysInOrder(ks, acc) ==
    IF ks = <<>> THEN acc
    ELSE IF \E i \in 1..Len(acc) : acc[i] = Head(ks)
         THEN KeysInOrder(Tail(ks), acc)
         ELSE KeysInOrder(Tail(ks), Append(acc, Head(ks)))

\* the indices i of 1..n with keyOf[i] = key, in order
RECURSIVE IndicesWithKey(_, _, _)
IndicesWithKey(keyOf, key, i) ==
    IF i > Len(keyOf) THEN <<>>
    ELSE IF keyOf[i] = key THEN <<i>> \o IndicesWithKey(keyOf, key, i + 1)
    ELSE IndicesWithKey(keyOf, key, i + 1)

\* by_key of a grouping: kept are the records that pass the filter, keyOf[i]
\* is the key of kept[i]; per key, in insertion order, the list of its records
Grouped(kept, keyOf) ==
    LET keys == KeysInOrder(keyOf, <<>>)
    IN [i \in 1..Len(keys) |->
          LET members == IndicesWithKey(keyOf, keys[i], 1)
          IN [key |-> keys[i], items |-> [k \in 1..Len(members) |-> kept[members[k]]]]]

IntStr(n) == <<"1", "2", "3", "4", "5", "6">>[n]

\* the pairs (i, j), i < j, in the order of the two nested loops
RECURSIVE PairsFrom(_, _, _)
PairsFrom(i, j, n) ==
    IF i > n THEN <<>>
    ELSE IF j > n THEN PairsFrom(i + 1, i + 2, n)
    ELSE <<(<<i, j>>)>> \o PairsFrom(i, j + 1, n)

ClassPairEntry(kelas, tanggal, a, b) ==
    [KELAS |-> kelas, TANGGAL |-> tanggal,
     SHIFT_1 |-> a.SHIFT, MATA_KULIAH_1 |-> a.NAMA, KODE_1 |-> a.KODE,
     RUANGAN_1 |-> a.RUANGAN,
     SHIFT_2 |-> b.SHIFT, MATA_KULIAH_2 |-> b.NAMA, KODE_2 |-> b.KODE,
     RUANGAN_2 |-> b.RUANGAN]

\* mutant of ClassLimitEntry: TOTAL counts the pairs of neighbours
ClassLimitEntry_OffByOne(kelas, tanggal, its) ==
    [KELAS |-> kelas, TANGGAL |-> tanggal, JENIS |-> "LIMIT > 2/HARI",
     TOTAL |-> IntStr(Len(its) - 1),
     DETAIL |-> [i \in 1..Len(its) |-> its[i].SHIFT \o " - " \o its[i].NAMA]]

\* DETAIL is kept as the list of the parts joined by "; "
ClassLimitEntry(kelas, tanggal, its) ==
    [KELAS |-> kelas, TANGGAL |-> tanggal, JENIS |-> "LIMIT > 2/HARI",
     TOTAL |-> IntStr(Len(its)),
     DETAIL |-> [i \in 1..Len(its) |-> its[i].SHIFT \o " - " \o its[i].NAMA]]

\* mutant of ClassGroupConflicts: the inner loop looks at the next item only
ClassGroupConflicts_AdjacentOnly(g) ==
    LET its == g.items
        pairs == [i \in 1..(Len(its) - 1) |-> <<i, i + 1>>]
        overlapping(p) == Overlap(its[p[1]].INTERVAL[1], its[p[1]].INTERVAL[2],
                                  its[p[2]].INTERVAL[1], its[p[2]].INTERVAL[2])
        hits == SelectSeq(pairs, overlapping)
    IN [k \in 1..Len(hits) |->
           ClassPairEntry(g.key[1], g.key[2], its[hits[k][1]], its[hits[k][2]])]
       \o (IF Len(its) > 2 THEN <<ClassLimitEntry(g.key[1], g.key[2], its)>>
           ELSE <<>>)

ClassGroupConflicts(g) ==
    LET its == g.items
        pairs == PairsFrom(1, 2, Len(its))
        overlapping(p) == Overlap(its[p[1]].INTERVAL[1], its[p[1]].INTERVAL[2],
                                  its[p[2]].INTERVAL[1], its[p[2]].INTERVAL[2])
        hits == SelectSeq(pairs, overlapping)
    IN [k \in 1..Len(hits) |->
           ClassPairEntry(g.key[1], g.key[2], its[hits[k][1]], its[hits[k][2]])]
       \o (IF Len(its) > 2 THEN <<ClassLimitEntry(g.key[1], g.key[2], its)>>
           ELSE <<>>)

find_class_conflicts(recs) ==
    LET eligible(rec) == rec.KELAS # "" /\ rec.TANGGAL # "" /\ rec.INTERVAL # NoInterval
        kept == SelectSeq(recs, eligible)
        by_key == Grouped(kept, [i \in 1..Len(kept) |-> <<kept[i].KELAS, kept[i].TANGGAL>>])
    IN Flatten([i \in 1..Len(by_key) |-> ClassGroupConflicts(by_key[i])])

RoomEntry(it) ==
    [TANGGAL |-> it.TANGGAL, SHIFT |-> it.SHIFT, RUANGAN |-> it.RUANGAN,
     KELAS |-> it.KELAS, MATA_KULIAH |-> it.NAMA, KODE |-> it.KODE]

\* mutant of RoomGroupConflicts: the auditorium is held to one occupant
RoomGroupConflicts_AulaAsOrdinary(g) ==
    IF Len(g.items) > 1
    THEN [k \in 1..Len(g.items) |-> RoomEntry(g.items[k])]
    ELSE <<>>

RoomGroupConflicts(g) ==
    IF Upper(g.key[3]) = "AULA" /\ Len(g.items) <= 2 THEN <<>>
    ELSE IF Len(g.items) > 1
         THEN [k \in 1..Len(g.items) |-> RoomEntry(g.items[k])]
         ELSE <<>>

find_room_conflicts(recs) ==
    LET eligible(rec) == rec.TANGGAL # "" /\ rec.SHIFT # "" /\ rec.RUANGAN # ""
        kept == SelectSeq(recs, eligible)
        by_key == Grouped(kept, [i \in 1..Len(kept) |->
                                    <<kept[i].TANGGAL, kept[i].SHIFT, kept[i].RUANGAN>>])
    IN Flatten([i \in 1..Len(by_key) |-> RoomGroupConflicts(by_key[i])])

DosenEntry(dosen, a, b) ==
    [TANGGAL_1 |-> a.TANGGAL, SHIFT_1 |-> a.SHIFT, DOSEN |-> dosen,
     KELAS_1 |-> a.KELAS, MATA_KULIAH_1 |-> a.NAMA, RUANGAN_1 |-> a.RUANGAN,
     TANGGAL_2 |-> b.TANGGAL, SHIFT_2 |-> b.SHIFT, KELAS_2 |-> b.KELAS,
     MATA_KULIAH_2 |-> b.NAMA, RUANGAN_2 |-> b.RUANGAN]

DosenGroupConflicts(g) ==
    LET its == g.items
        pairs == PairsFrom(1, 2, Len(its))
        overlapping(p) == Overlap(its[p[1]].INTERVAL[1], its[p[1]].INTERVAL[2],
                                  its[p[2]].INTERVAL[1], its[p[2]].INTERVAL[2])
        hits == SelectSeq(pairs, overlapping)
    IN [k \in 1..Len(hits) |-> DosenEntry(g.key, its[hits[k][1]], its[hits[k][2]])]

\* mutant of find_dosen_conflicts: the records are grouped by lecturer and date cell
find_dosen_conflicts_ByDate(recs) ==
    LET eligible(rec) == rec.NAMA_DOSEN # "" /\ rec.INTERVAL # NoInterval
        kept == SelectSeq(recs, eligible)
        by_dosen == Grouped(kept, [i \in 1..Len(kept) |->
                                      <<kept[i].NAMA_DOSEN, kept[i].TANGGAL>>])
    IN Flatten([i \in 1..Len(by_dosen) |->
                   DosenGroupConflicts([key |-> by_dosen[i].key[1],
                                        items |-> by_dosen[i].items])])

find_dosen_conflicts(recs) ==
    LET eligible(rec) == rec.NAMA_DOSEN # "" /\ rec.INTERVAL # NoInterval
        kept == SelectSeq(recs, eligible)
        by_dosen == Grouped(kept, [i \in 1..Len(kept) |-> kept[i].NAMA_DOSEN])
    IN Flatten([i \in 1..Len(by_dosen) |-> DosenGroupConflicts(by_dosen[i])])

BlacklistEntry(rec) ==
    [TANGGAL |-> rec.TANGGAL, SHIFT |-> rec.SHIFT, RUANGAN |-> rec.RUANGAN,
     KELAS |-> rec.KELAS, MATA_KULIAH |-> rec.NAMA]

find_blacklist_violations(recs) ==
    LET violates(rec) == /\ rec.RUANGAN # ""
                         /\ rec.INTERVAL # NoInterval
                         /\ cc_is_room_blacklisted_on_date(rec.RUANGAN, rec.INTERVAL[1])
        hits == SelectSeq(recs, violates)
    IN [k \in 1..Len(hits) |-> BlacklistEntry(hits[k])]

(* ----------------------- check_conflicts.main -------------------------- *)
allocState == <<ALL_ROOMS, items, order, pos, room_usage, room_occupants,
                class_usage, class_daily_count, generated_assignments,
                conflict_keys, dosen_usage, call>>

\* header, records = read_schedule(src)
ReadSchedule ==
    /\ pc = "done"
    /\ records' = read_schedule(generated_assignments)
    /\ pc' = "dedup"
    /\ UNCHANGED <<class_conflicts, room_conflicts, blacklist_violations,
                   dosen_conflicts, kelas_conflicts_csv>>
    /\ UNCHANGED allocState

Deduplicate ==
    /\ pc = "dedup"
    /\ records' = deduplicate_records(records)
    /\ pc' = "class"
    /\ UNCHANGED <<class_conflicts, room_conflicts, blacklist_violations,
                   dosen_conflicts, kelas_conflicts_csv>>
    /\ UNCHANGED allocState

\* the keys of a class entry in the order the entry was built with
EntryKeys(c) ==
    IF "SHIFT_1" \in DOMAIN c
    THEN <<"KELAS", "TANGGAL", "SHIFT_1", "MATA_KULIAH_1", "KODE_1", "RUANGAN_1",
           "SHIFT_2", "MATA_KULIAH_2", "KODE_2", "RUANGAN_2">>
    ELSE <<"KELAS", "TANGGAL", "JENIS", "TOTAL", "DETAIL">>

\* write_conflicts: the columns are the keys of the first entry, or the pair
\* columns for an empty report; a row holds c.get(k, "") for each column
write_conflicts(conflicts) ==
    LET cols == IF conflicts = <<>>
                THEN <<"KELAS", "TANGGAL", "SHIFT_1", "MATA_KULIAH_1", "KODE_1",
                       "RUANGAN_1", "SHIFT_2", "MATA_KULIAH_2", "KODE_2", "RUANGAN_2">>
                ELSE EntryKeys(conflicts[1])
        cell(c, k) == IF k \in DOMAIN c THEN c[k] ELSE ""
    IN [cols |-> cols,
        rows |-> [i \in 1..Len(conflicts) |->
                     [j \in 1..Len(cols) |-> cell(conflicts[i], cols[j])]]]

\* class_conflicts = find_class_conflicts(records), written to
\* kelas-conflicts.csv
FindClassConflicts ==
    /\ pc = "class"
    /\ class_conflicts' = find_class_conflicts(records)
    /\ kelas_conflicts_csv' = write_conflicts(find_class_conflicts(records))
    /\ pc' = "room"
    /\ UNCHANGED <<records, room_conflicts, blacklist_violations, dosen_conflicts>>
    /\ UNCHANGED allocState

FindRoomConflicts ==
    /\ pc = "room"
    /\ room_conflicts' = find_room_conflicts(records)
    /\ pc' = "blacklist"
    /\ UNCHANGED <<records, class_conflicts, blacklist_violations, dosen_conflicts,
                   kelas_conflicts_csv>>
    /\ UNCHANGED allocState

FindBlacklistViolations ==
    /\ pc = "blacklist"
    /\ blacklist_violations' = find_blacklist_violations(records)
    /\ pc' = "dosen"
    /\ UNCHANGED <<records, class_conflicts, room_conflicts, dosen_conflicts,
                   kelas_conflicts_csv>>
    /\ UNCHANGED allocState

FindDosenConflicts ==
    /\ pc = "dosen"
    /\ dosen_conflicts' = find_dosen_conflicts(records)
    /\ pc' = "audited"
    /\ UNCHANGED <<records, class_conflicts, room_conflicts, blacklist_violations,
                   kelas_conflicts_csv>>
    /\ UNCHANGED allocState

NextAudit ==
    \/ ReadSchedule
    \/ Deduplicate
    \/ FindClassConflicts
    \/ FindRoomConflicts
    \/ FindBlacklistViolations
    \/ FindDosenConflicts

Next == NextAlloc \/ NextAudit

\* generate_schedule.main followed by check_conflicts.main
Spec == Init /\ [][Next]_vars

(* ------------- the auditor on schedule files of its own --------------- *)
FileRow(kelas, dosen, hari, tanggal, shift, ruangan) ==
    [idx |-> 0, HARI |-> hari, TANGGAL |-> tanggal, SHIFT |-> shift,
     RUANGAN |-> ruangan, KODE |-> "", NAMA |-> "", NAMA_DOSEN |-> dosen,
     KELAS |-> kelas, BENTUK_UJIAN |-> "Ujian Tulis", JUMLAH_MAHASISWA |-> "45"]

FileWithCodes(rows) ==
    [i \in DOMAIN rows |->
        [rows[i] EXCEPT !.idx = i, !.KODE = CourseCode(i), !.NAMA = CourseName(i)]]

InitAuditWith(rowSpace, maxLen) ==
    /\ ALL_ROOMS = <<>>
    /\ items = <<>>
    /\ order = <<>>
    /\ pos = 1
    /\ room_usage = EmptyMap
    /\ room_occupants = EmptyMap
    /\ class_usage = EmptyMap
    /\ class_daily_count = EmptyMap
    /\ \E n \in 1..maxLen : \E rows \in [1..n -> rowSpace] :
          generated_assignments = FileWithCodes(rows)
    /\ records = <<>>
    /\ class_conflicts = <<>>
    /\ room_conflicts = <<>>
    /\ blacklist_violations = <<>>
    /\ dosen_conflicts = <<>>
    /\ conflict_keys = {}
    /\ dosen_usage = EmptyMap
    /\ call = NoCall
    /\ kelas_conflicts_csv = NoFile
    /\ pc = "done"

\* files for the class check: classes, spellings of dates, shifts on and off
\* the grid, cells that do not parse, a row without class
ClassAuditRows ==
    {FileRow("IT-06-A", "Dosen A", "SENIN", "03-Nov-25", sh, "GKU 1.01") :
        sh \in {"07.30 - 09.30", "08.30 - 10.30", "10.00 - 12.00", "13.00 - 15.00"}}
    \cup
    {FileRow("IT-06-A", "Dosen A", d[1], d[2], sh, "GKU 1.01") :
        d \in {<<"SENIN", "03/11/2025">>, <<"SELASA", "04-Nov-25">>},
        sh \in {"07.30 - 09.30", "08.30 - 10.30"}}
    \cup
    {FileRow("SI-01-A", "Dosen A", "SENIN", "03-Nov-25", sh, "GKU 1.01") :
        sh \in {"07.30 - 09.30", "08.30 - 10.30", "10.00 - 12.00"}}
    \cup
    {FileRow("IT-06-A", "Dosen A", "SENIN", "03-Nov-25", "07:30 - 09:30", "GKU 1.01"),
     FileRow("IT-06-A", "Dosen A", "SENIN", "2025-11-03", "07.30 - 09.30", "GKU 1.01"),
     FileRow("", "Dosen A", "SENIN", "03-Nov-25", "07.30 - 09.30", "GKU 1.01")}

\* files for the room check: ordinary rooms, the auditorium in two spellings,
\* rows without room
RoomAuditRows ==
    {FileRow("IT-06-A", "Dosen A", "SENIN", "03-Nov-25", sh, r) :
        sh \in {"07.30 - 09.30", "07.30-09.30", "10.00 - 12.00"},
        r \in {"GKU 1.01", "AULA", "Aula"}}
    \cup
    {FileRow("IT-06-A", "Dosen A", "SELASA", "04-Nov-25", "07.30 - 09.30", r) :
        r \in {"GKU 1.01", "AULA", ""}}
    \cup
    {FileRow("IT-06-A", "Dosen A", "SENIN", "03-Nov-25", "07:30 - 09:30", "GKU 1.01"),
     FileRow("IT-06-A", "Dosen A", "", "", "", "GKU 1.01")}

\* files for the overlap of two shifts written without blanks, the date
\* cell in the form the generator writes and in the form year-month-day
ShiftPairAuditRows ==
    {FileRow("IT-06-A", "Dosen A", "SENIN", d, sh, "GKU 1.01") :
        d \in {"03-Nov-25", "2025-11-03"},
        sh \in {"07.30-09.30", "08.30-10.30", "10.00 - 12.00"}}
    \cup
    {FileRow("SI-01-A", "Dosen B", "SENIN", "03-Nov-25", "07.30-09.30", "GKU 1.01")}

\* files for the blacklist check: rooms of both suffix sets and a room of
\* neither, Monday and Thursday of the exam week and the Monday after it, a
\* Wednesday, a shift cell that does not parse, a row without room
BlacklistAuditRows ==
    {FileRow("IT-06-A", "Dosen A", d[1], d[2], "07.30 - 09.30", r) :
        d \in {<<"SENIN", "03-Nov-25">>, <<"KAMIS", "06-Nov-25">>,
               <<"SENIN", "10-Nov-25">>},
        r \in {"KTT 2.08", "KTT 2.09", "GKU 1.01"}}
    \cup
    {FileRow("IT-06-A", "Dosen A", "RABU", "05-Nov-25", "07.30 - 09.30", "GD KTT 2.08"),
     FileRow("IT-06-A", "Dosen A", "SENIN", "03-Nov-25", "07:30 - 09:30", "KTT 2.08"),
     FileRow("IT-06-A", "Dosen A", "SENIN", "03-Nov-25", "07.30 - 09.30", "")}

\* files for the lecturer check: one lecturer with two classes, three date
\* cells of which two spell the same day, a second lecturer, a row without
\* lecturer, a shift cell that does not parse
DosenAuditRows ==
    {FileRow("IT-06-A", "Dosen A", d[1], d[2], sh, "GKU 1.01") :
        d \in {<<"SENIN", "03-Nov-25">>, <<"SENIN", "03/11/2025">>,
               <<"SELASA", "04-Nov-25">>},
        sh \in {"07.30 - 09.30", "08.30 - 10.30"}}
    \cup
    {FileRow("SI-01-A", "Dosen A", "SENIN", "03-Nov-25", sh, "KTT 2.08") :
        sh \in {"07.30 - 09.30", "10.00 - 12.00"}}
    \cup
    {FileRow("IT-06-A", "Dosen B", "SENIN", "03-Nov-25", "07.30 - 09.30", "GKU 1.01"),
     FileRow("IT-06-A", "", "SENIN", "03-Nov-25", "07.30 - 09.30", "GKU 1.01"),
     FileRow("IT-06-A", "Dosen A", "SENIN", "03-Nov-25", "07:30 - 09:30", "GKU 1.01")}

InitAuditClass == InitAuditWith(ClassAuditRows, MaxRecords)
InitAuditDosen == InitAuditWith(DosenAuditRows, MaxRecords)
InitAuditBlacklist == InitAuditWith(BlacklistAuditRows, MaxRecords)
InitAuditShiftPair == InitAuditWith(ShiftPairAuditRows, MaxRecords)
InitAuditRoom == InitAuditWith(RoomAuditRows, MaxRecords)

\* files in which course codes repeat: two codes, two shifts, two rooms
DedupAuditRows ==
    {[FileRow("IT-06-A", "Dosen A", "SENIN", "03-Nov-25", sh, r)
         EXCEPT !.KODE = c[1], !.NAMA = c[2]] :
        c \in {<<"MK1", "Kalkulus">>, <<"MK2", "Fisika">>},
        sh \in {"07.30 - 09.30", "10.00 - 12.00"},
        r \in {"GKU 1.01", "AULA"}}

InitAuditDedup ==
    /\ ALL_ROOMS = <<>>
    /\ items = <<>>
    /\ order = <<>>
    /\ pos = 1
    /\ room_usage = EmptyMap
    /\ room_occupants = EmptyMap
    /\ class_usage = EmptyMap
    /\ class_daily_count = EmptyMap
    /\ \E n \in 1..MaxDedupRows : \E rows \in [1..n -> DedupAuditRows] :
          generated_assignments = [i \in 1..n |-> [rows[i] EXCEPT !.idx = i]]
    /\ records = <<>>
    /\ class_conflicts = <<>>
    /\ room_conflicts = <<>>
    /\ blacklist_violations = <<>>
    /\ dosen_conflicts = <<>>
    /\ conflict_keys = {}
    /\ dosen_usage = EmptyMap
    /\ call = NoCall
    /\ kelas_conflicts_csv = NoFile
    /\ pc = "done"

SpecAuditDedup == InitAuditDedup /\ [][NextAudit]_vars
SpecAuditClass == InitAuditClass /\ [][NextAudit]_vars
SpecAuditRoom == InitAuditRoom /\ [][NextAudit]_vars
SpecAuditDosen == InitAuditDosen /\ [][NextAudit]_vars
SpecAuditBlacklist == InitAuditBlacklist /\ [][NextAudit]_vars
SpecAuditShiftPair == InitAuditShiftPair /\ [][NextAudit]_vars

(* ============================== claims ================================= *)
Audited == pc = "audited"

HasInterval(rec) == rec.INTERVAL # NoInterval

IsPairEntry(c) == "SHIFT_1" \in DOMAIN c
IsLimitEntry(c) == "JENIS" \in DOMAIN c

\* the class report holds the pair entry of records[i] and records[j]
ClassPairReported(i, j) ==
    \E k \in 1..Len(class_conflicts) :
        /\ IsPairEntry(class_conflicts[k])
        /\ class_conflicts[k].KELAS = records[i].KELAS
        /\ class_conflicts[k].TANGGAL = records[i].TANGGAL
        /\ class_conflicts[k].KODE_1 = records[i].KODE
        /\ class_conflicts[k].SHIFT_1 = records[i].SHIFT
        /\ class_conflicts[k].KODE_2 = records[j].KODE
        /\ class_conflicts[k].SHIFT_2 = records[j].SHIFT

SameClassAndDate(i, j) ==
    /\ records[i].KELAS # ""
    /\ records[i].KELAS = records[j].KELAS
    /\ records[i].TANGGAL # ""
    /\ records[i].TANGGAL = records[j].TANGGAL

IntervalsOverlap(i, j) ==
    /\ HasInterval(records[i])
    /\ HasInterval(records[j])
    /\ ~(\/ records[i].INTERVAL[2] <= records[j].INTERVAL[1]
         \/ records[i].INTERVAL[1] >= records[j].INTERVAL[2])

RoomSlotFilled(rec) == rec.TANGGAL # "" /\ rec.SHIFT # "" /\ rec.RUANGAN # ""

\* the number of records in the (TANGGAL, SHIFT, RUANGAN) slot of rec
Occupants(rec) ==
    Cardinality({i \in 1..Len(records) :
        /\ records[i].TANGGAL = rec.TANGGAL
        /\ records[i].SHIFT = rec.SHIFT
        /\ records[i].RUANGAN = rec.RUANGAN})

OverBooked(rec) ==
    IF Upper(rec.RUANGAN) = "AULA" THEN Occupants(rec) > 2 ELSE Occupants(rec) > 1

RoomReported(rec) ==
    \E k \in 1..Len(room_conflicts) :
        /\ room_conflicts[k].KODE = rec.KODE
        /\ room_conflicts[k].TANGGAL = rec.TANGGAL
        /\ room_conflicts[k].SHIFT = rec.SHIFT
        /\ room_conflicts[k].RUANGAN = rec.RUANGAN

ClassDayRecords(kelas, tanggal) ==
    {i \in 1..Len(records) :
        /\ records[i].KELAS = kelas
        /\ records[i].TANGGAL = tanggal
        /\ HasInterval(records[i])}

LimitReported(kelas, tanggal, total) ==
    \E k \in 1..Len(class_conflicts) :
        /\ IsLimitEntry(class_conflicts[k])
        /\ class_conflicts[k].KELAS = kelas
        /\ class_conflicts[k].TANGGAL = tanggal
        /\ class_conflicts[k].TOTAL = total

AllocDone == pc = "done"

\* the input row an output row was made from
InputOf(row) == items[row.idx]

\* the interval of an output row as the allocator reads it
RowInterval(row) == parse_existing_datetime(row.HARI, row.TANGGAL, row.SHIFT)

\* the input row has no usable date and shift: step 3 chooses its slot
IsUnscheduled(it) ==
    ~IsFullyFilled(it) /\ parse_existing_datetime(it.hari, it.tanggal, it.shift) = NoInterval

\* an output row whose slot step 3 chose
PlacedByStep3(row) == IsUnscheduled(InputOf(row)) /\ row.TANGGAL # ""

RowsOverlap(a, b) ==
    /\ RowInterval(a) # NoInterval
    /\ RowInterval(b) # NoInterval
    /\ Overlap(RowInterval(a)[1], RowInterval(a)[2], RowInterval(b)[1], RowInterval(b)[2])

\* the input written as a schedule file, and the auditor's verdict on a file
InputAsFile ==
    [i \in 1..Len(items) |->
        OutRow(i, items[i], items[i].hari, items[i].tanggal, items[i].shift,
               items[i].ruangan)]

NoConflictsIn(rows) ==
    LET recs == deduplicate_records(read_schedule(rows))
    IN /\ find_class_conflicts(recs) = <<>>
       /\ find_room_conflicts(recs) = <<>>
       /\ find_blacklist_violations(recs) = <<>>
       /\ find_dosen_conflicts(recs) = <<>>

\* C1: for an input in which the auditor finds nothing, the auditor finds
\* nothing in the allocator's output either: the class, room, blackout and
\* lecturer reports are all empty.
C1_RoundTripClean ==
    (Audited /\ NoConflictsIn(InputAsFile)) =>
        /\ class_conflicts = <<>>
        /\ room_conflicts = <<>>
        /\ blacklist_violations = <<>>
        /\ dosen_conflicts = <<>>

IsOrdinaryRoom(row) == row.RUANGAN # "" /\ ~is_aula(row.RUANGAN)

\* two output rows in the same (date, shift, room)
SameTriple(a, b) ==
    /\ a.RUANGAN = b.RUANGAN
    /\ \/ a.TANGGAL = b.TANGGAL /\ a.SHIFT = b.SHIFT
       \/ RowInterval(a) # NoInterval /\ RowInterval(a) = RowInterval(b)

\* C3: after allocation no two records are in the same (date, shift, room)
\* when the room is not the auditorium; two rows that step 1 took over from
\* the input without validation are not counted against the allocator.
C3_OrdinaryRoomSingleOccupant ==
    AllocDone =>
        \A i, j \in 1..Len(generated_assignments) :
            LET a == generated_assignments[i]
                b == generated_assignments[j]
            IN (i < j /\ IsOrdinaryRoom(a) /\ SameTriple(a, b)) =>
                   (IsFullyFilled(InputOf(a)) /\ IsFullyFilled(InputOf(b)))

IsEligibleForAula(row) ==
    IsUjianTulis(row.BENTUK_UJIAN) /\ parse_int_safe(row.JUMLAH_MAHASISWA) >= 40

InAulaWindow(row) ==
    /\ RowInterval(row) # NoInterval
    /\ \/ Weekday(RowInterval(row)[1]) = 0
       \/ /\ Weekday(RowInterval(row)[1]) = 1
          /\ TimeOf(RowInterval(row)[1]) >= 780

AulaRowsAt(row) ==
    {k \in 1..Len(generated_assignments) :
        /\ is_aula(generated_assignments[k].RUANGAN)
        /\ generated_assignments[k].TANGGAL = row.TANGGAL
        /\ generated_assignments[k].SHIFT = row.SHIFT}

\* C5: after allocation, where the auditorium holds two occupants in one
\* (date, shift), both are written exams with at least 40 students and the
\* slot is on Monday, or on Tuesday from 13:00.
C5_AulaPairEligibleInWindow ==
    AllocDone =>
        \A i \in 1..Len(generated_assignments) :
            LET a == generated_assignments[i]
            IN (is_aula(a.RUANGAN) /\ Cardinality(AulaRowsAt(a)) = 2) =>
                   (IsEligibleForAula(a) /\ InAulaWindow(a))

\* the spelling of day, date, shift and room is the input's
KeepsInputSchedule(row) ==
    /\ row.HARI = InputOf(row).hari
    /\ row.TANGGAL = InputOf(row).tanggal
    /\ row.SHIFT = InputOf(row).shift
    /\ row.RUANGAN = InputOf(row).ruangan

AllFullyFilled == \A i \in 1..Len(items) : IsFullyFilled(items[i])

\* C7: when every input row has day, date, shift and room and the auditor
\* finds no conflict among them, the allocator's output has one row per
\* input row with the same day, date, shift and room.
C7_FullyScheduledUnchanged ==
    (AllocDone /\ AllFullyFilled /\ NoConflictsIn(InputAsFile)) =>
        /\ Len(generated_assignments) = Len(items)
        /\ {generated_assignments[k].idx : k \in 1..Len(generated_assignments)}
               = 1..Len(items)
        /\ \A k \in 1..Len(generated_assignments) :
               KeepsInputSchedule(generated_assignments[k])

\* two conflict-free pre-filled rows, one of them in another spelling of date
\* and shift than the allocator writes, have gone through the allocator
C7_Witness ==
    /\ AllocDone
    /\ Len(items) >= 2
    /\ AllFullyFilled
    /\ NoConflictsIn(InputAsFile)
    /\ \E k \in 1..Len(generated_assignments) :
           /\ generated_assignments[k].TANGGAL = "3-Nov-25"
           /\ generated_assignments[k].SHIFT = "07.30-09.30"
    /\ \E k \in 1..Len(generated_assignments) :
           generated_assignments[k].TANGGAL = "04-Nov-25"

\* C8: after allocation no record whose slot the allocator chose overlaps
\* another record of the same lecturer.
C8_NoLecturerOverlap ==
    AllocDone =>
        \A i, j \in 1..Len(generated_assignments) :
            LET a == generated_assignments[i]
                b == generated_assignments[j]
            IN (i # j /\ PlacedByStep3(a) /\ a.NAMA_DOSEN # ""
                      /\ a.NAMA_DOSEN = b.NAMA_DOSEN) => ~RowsOverlap(a, b)

\* the last row build_schedule has written in a step
NewRow == generated_assignments'[Len(generated_assignments')]

\* the row step 3 has just placed is clear of every interval registered for
\* its class, and its class has fewer than 2 rows registered on its date
C9_StepRespectsClass ==
    (pc = "loop" /\ Len(generated_assignments') = Len(generated_assignments) + 1
                 /\ PlacedByStep3(NewRow) /\ NewRow.KELAS # "") =>
        /\ \A k \in 1..Len(GetList(class_usage, NewRow.KELAS)) :
               ~Overlap(RowInterval(NewRow)[1], RowInterval(NewRow)[2],
                        GetList(class_usage, NewRow.KELAS)[k][1],
                        GetList(class_usage, NewRow.KELAS)[k][2])
        /\ GetCount(class_daily_count,
                    <<NewRow.KELAS, StrftimeYMD(RowInterval(NewRow)[1])>>) < 2

\* the rows step 3 has placed for the class of a row on the date of that row
PlacedForClassOn(row) ==
    {k \in 1..Len(generated_assignments) :
        /\ PlacedByStep3(generated_assignments[k])
        /\ generated_assignments[k].KELAS = row.KELAS
        /\ generated_assignments[k].TANGGAL = row.TANGGAL}

\* among the rows step 3 has placed, no class has two overlapping rows or
\* more than 2 rows on one date
C9_PlacedRowsClassSafe ==
    \A i \in 1..Len(generated_assignments) :
        LET a == generated_assignments[i]
        IN (PlacedByStep3(a) /\ a.KELAS # "") =>
               /\ Cardinality(PlacedForClassOn(a)) <= 2
               /\ \A j \in 1..Len(generated_assignments) :
                      (j # i /\ PlacedByStep3(generated_assignments[j])
                             /\ generated_assignments[j].KELAS = a.KELAS) =>
                          ~RowsOverlap(a, generated_assignments[j])

\* C9: step 3 never places a record of a class in a slot that overlaps an
\* interval already registered for that class, nor on a date on which the
\* class already has 2 registered rows; so among the rows step 3 placed no
\* class has two overlapping rows or more than 2 rows on one date.
C9_Step3ClassConstraint ==
    [][C9_StepRespectsClass /\ C9_PlacedRowsClassSafe']_vars

\* step 3 has placed three rows of one class: two share a date, the third
\* was moved to another date
C9_Witness ==
    /\ AllocDone
    /\ \E i, j, k \in 1..Len(generated_assignments) :
           LET a == generated_assignments[i]
               b == generated_assignments[j]
               c == generated_assignments[k]
           IN /\ i < j /\ k # i /\ k # j
              /\ PlacedByStep3(a) /\ PlacedByStep3(b) /\ PlacedByStep3(c)
              /\ a.KELAS # "" /\ a.KELAS = b.KELAS /\ a.KELAS = c.KELAS
              /\ a.TANGGAL = b.TANGGAL
              /\ c.TANGGAL # a.TANGGAL

\* C10: where the allocator has put a record into an auditorium slot next to
\* another occupant, the class identifiers of the two begin with the same
\* two characters.
C10_SecondAulaOccupantSharesPrefix ==
    AllocDone =>
        \A i, j \in 1..Len(generated_assignments) :
            LET a == generated_assignments[i]
                b == generated_assignments[j]
            IN (/\ i < j
                /\ is_aula(a.RUANGAN)
                /\ SameTriple(a, b)
                /\ ~(IsFullyFilled(InputOf(a)) /\ IsFullyFilled(InputOf(b)))
                /\ a.KELAS # "" /\ b.KELAS # "") =>
                   Prefix2(a.KELAS) = Prefix2(b.KELAS)

(* -------------------- fix_blacklisted_rooms.py ------------------------ *)
\* The schedule file is generated_assignments, blacklisted_indices is order,
\* the usage maps are room_usage, class_usage and class_daily_count.
fb_is_room_blacklisted_on_date(room, date_dt) ==
    IF ~(0 <= DateOf(date_dt) /\ DateOf(date_dt) <= 4) THEN FALSE
    ELSE \/ \E suf \in {"KTT 2.09"} : EndsWith(room, suf) /\ Weekday(date_dt) <= 4
         \/ \E suf \in {"KTT 2.08", "KTT 2.07", "KTT 2.06", "KTT 2.05", "KTT 2.04"} :
               EndsWith(room, suf) /\ Weekday(date_dt) <= 2

\* the values pick_free_room of the repair can return; NoRoom is None
fb_pick_free_room(U, rooms, date_dt, date_key, shift_key, allow_aula, bentuk_ujian, jumlah_mhs) ==
    LET usable == {r \in {rooms[i] : i \in 1..Len(rooms)} :
                      ~fb_is_room_blacklisted_on_date(r, date_dt)}
        aula_candidates ==
            {r \in usable :
                /\ Upper(r) = "AULA"
                /\ allow_aula
                /\ ~(Lower(bentuk_ujian) # "ujian tulis" \/ jumlah_mhs <= 0
                                                         \/ jumlah_mhs < 40)
                /\ GetCount(U.room_usage, <<date_key, shift_key, r>>) < 2}
        normal_candidates ==
            {r \in usable :
                /\ Upper(r) # "AULA"
                /\ GetCount(U.room_usage, <<date_key, shift_key, r>>) = 0}
    IN IF normal_candidates # {} THEN normal_candidates
       ELSE IF aula_candidates # {} THEN aula_candidates
       ELSE {NoRoom}

\* room_usage[date_key][shift_key][room] += 1 and the class maps when kelas
fb_Register(U, kelas, start_dt, end_dt, room) ==
    LET date_key == StrftimeYMD(start_dt)
        shift_key == format_time_range(start_dt, end_dt)
        U1 == [U EXCEPT !.room_usage = IncCount(@, <<date_key, shift_key, room>>)]
    IN IF kelas # "" THEN RegisterClass(U1, kelas, start_dt, end_dt, date_key)
       ELSE U1

\* first pass over one row: S.u is the usage, S.bl the blacklisted_indices
fb_FirstPassRow(S, row, idx) ==
    IF row.HARI = "" \/ row.TANGGAL = "" \/ row.SHIFT = "" \/ row.RUANGAN = ""
    THEN S
    ELSE LET parsed == parse_existing_datetime(row.HARI, row.TANGGAL, row.SHIFT) IN
         IF parsed = NoInterval THEN S
         ELSE IF fb_is_room_blacklisted_on_date(row.RUANGAN, parsed[1])
              THEN [S EXCEPT !.bl = Append(@, idx)]
              ELSE [S EXCEPT !.u = fb_Register(@, row.KELAS, parsed[1], parsed[2],
                                               row.RUANGAN)]

RECURSIVE fb_FirstPass(_, _, _)
fb_FirstPass(S, rows, i) ==
    IF i > Len(rows) THEN S
    ELSE fb_FirstPass(fb_FirstPassRow(S, rows[i], i), rows, i + 1)

fb_is_class_conflict(U, kelas, start_dt, end_dt) ==
    IF kelas = "" THEN FALSE
    ELSE \/ \E k \in 1..Len(GetList(U.class_usage, kelas)) :
               ~(\/ end_dt <= GetList(U.class_usage, kelas)[k][1]
                 \/ start_dt >= GetList(U.class_usage, kelas)[k][2])
         \/ GetCount(U.class_daily_count, <<kelas, StrftimeYMD(start_dt)>>) >= 2

\* the slot of a list that the search loops of the second pass stop at, 0 when
\* they run through
fb_SlotIndex(U, rooms, row, slots, allow_aula, jumlah_mhs) ==
    FirstIndex([i \in 1..Len(slots) |->
        /\ ~fb_is_class_conflict(U, row.KELAS, slots[i][1], slots[i][2])
        /\ fb_pick_free_room(U, rooms, slots[i][1], StrftimeYMD(slots[i][1]),
                             format_time_range(slots[i][1], slots[i][2]),
                             allow_aula, row.BENTUK_UJIAN, jumlah_mhs) # {NoRoom}])

\* the outcomes of moving the row to a slot: new day, date, shift and room
fb_MoveTo(U, rooms, row, slot, allow_aula, jumlah_mhs) ==
    {Outcome(fb_Register(U, row.KELAS, slot[1], slot[2], room),
             [row EXCEPT !.HARI = weekday_name(slot[1]),
                         !.TANGGAL = StrftimeDMY(slot[1]),
                         !.SHIFT = format_time_range(slot[1], slot[2]),
                         !.RUANGAN = room]) :
        room \in fb_pick_free_room(U, rooms, slot[1], StrftimeYMD(slot[1]),
                                   format_time_range(slot[1], slot[2]),
                                   allow_aula, row.BENTUK_UJIAN, jumlah_mhs)}

\* the second pass, were it to empty the room cell of a row it finds no slot for
fb_FixRow_ClearsRoom(U, rooms, row) ==
    LET jumlah_mhs == parse_int_safe(row.JUMLAH_MAHASISWA)
        parsed == parse_existing_datetime(row.HARI, row.TANGGAL, row.SHIFT)
        start_dt == parsed[1]
        end_dt == parsed[2]
        allow_aula == Lower(row.BENTUK_UJIAN) = "ujian tulis" /\ jumlah_mhs >= 40
        same == fb_pick_free_room(U, rooms, start_dt, StrftimeYMD(start_dt),
                                  format_time_range(start_dt, end_dt),
                                  allow_aula, row.BENTUK_UJIAN, jumlah_mhs)
        day_slots == generate_daily_shifts(start_dt)
        k2 == fb_SlotIndex(U, rooms, row, day_slots, allow_aula, jumlah_mhs)
        k3 == fb_SlotIndex(U, rooms, row, NaturalOrderSlots, allow_aula, jumlah_mhs)
    IN IF parsed = NoInterval THEN {Outcome(U, row)}
       ELSE IF same # {NoRoom}
       THEN {Outcome(fb_Register(U, row.KELAS, start_dt, end_dt, room),
                     [row EXCEPT !.RUANGAN = room]) : room \in same}
       ELSE IF k2 # 0
       THEN fb_MoveTo(U, rooms, row, day_slots[k2], allow_aula, jumlah_mhs)
       ELSE IF k3 # 0
       THEN fb_MoveTo(U, rooms, row, NaturalOrderSlots[k3], allow_aula, jumlah_mhs)
       ELSE {Outcome(U, [row EXCEPT !.RUANGAN = NoRoom])}

\* second pass over one blacklisted row: same slot, then the shifts of the
\* same date, then all dates
fb_FixRow(U, rooms, row) ==
    LET jumlah_mhs == parse_int_safe(row.JUMLAH_MAHASISWA)
        parsed == parse_existing_datetime(row.HARI, row.TANGGAL, row.SHIFT)
        start_dt == parsed[1]
        end_dt == parsed[2]
        allow_aula == Lower(row.BENTUK_UJIAN) = "ujian tulis" /\ jumlah_mhs >= 40
        same == fb_pick_free_room(U, rooms, start_dt, StrftimeYMD(start_dt),
                                  format_time_range(start_dt, end_dt),
                                  allow_aula, row.BENTUK_UJIAN, jumlah_mhs)
        day_slots == generate_daily_shifts(start_dt)
        k2 == fb_SlotIndex(U, rooms, row, day_slots, allow_aula, jumlah_mhs)
        k3 == fb_SlotIndex(U, rooms, row, NaturalOrderSlots, allow_aula, jumlah_mhs)
    IN IF parsed = NoInterval THEN {Outcome(U, row)}
       ELSE IF same # {NoRoom}
       THEN {Outcome(fb_Register(U, row.KELAS, start_dt, end_dt, room),
                     [row EXCEPT !.RUANGAN = room]) : room \in same}
       ELSE IF k2 # 0
       THEN fb_MoveTo(U, rooms, row, day_slots[k2], allow_aula, jumlah_mhs)
       ELSE IF k3 # 0
       THEN fb_MoveTo(U, rooms, row, NaturalOrderSlots[k3], allow_aula, jumlah_mhs)
       ELSE {Outcome(U, row)}

\* a row of the schedule file with its exam form and headcount
FixFileRow(kelas, form, day, shift, ruangan) ==
    [idx |-> 0, HARI |-> day[1], TANGGAL |-> day[2], SHIFT |-> shift,
     RUANGAN |-> ruangan, KODE |-> "", NAMA |-> "", NAMA_DOSEN |-> "Dosen A",
     KELAS |-> kelas, BENTUK_UJIAN |-> form[1], JUMLAH_MAHASISWA |-> form[2]]

\* schedule files for the repair: rows in a blacklisted and in a free room on
\* Monday and Wednesday, written and oral, a row on Thursday, a row without room
FixRows ==
    {FixFileRow(k, f, d, "07.30 - 09.30", r) :
        k \in {"IT-06-A", "SI-01-A"},
        f \in {<<"Ujian Tulis", "45">>, <<"Ujian Lisan", "30">>},
        d \in {<<"SENIN", "03-Nov-25">>, <<"RABU", "05-Nov-25">>},
        r \in {"GD KTT 2.08", "GKU 1.01"}}
    \cup
    {FixFileRow("IT-06-A", <<"Ujian Tulis", "45">>, <<"KAMIS", "06-Nov-25">>,
                "07.30 - 09.30", "GD KTT 2.08"),
     FixFileRow("IT-06-A", <<"Ujian Tulis", "45">>, <<"SENIN", "03-Nov-25">>,
                "07.30 - 09.30", "")}

FixRosters == {<<"GD KTT 2.08", "AULA">>, <<"GKU 1.01", "GD KTT 2.08", "AULA">>}

InitFixWith(rowSpace, rosters) ==
    /\ ALL_ROOMS \in rosters
    /\ items = <<>>
    /\ order = <<>>
    /\ pos = 1
    /\ room_usage = EmptyMap
    /\ room_occupants = EmptyMap
    /\ class_usage = EmptyMap
    /\ class_daily_count = EmptyMap
    /\ \E n \in 1..MaxFixRows : \E rows \in [1..n -> rowSpace] :
          generated_assignments = FileWithCodes(rows)
    /\ records = <<>>
    /\ class_conflicts = <<>>
    /\ room_conflicts = <<>>
    /\ blacklist_violations = <<>>
    /\ dosen_conflicts = <<>>
    /\ conflict_keys = {}
    /\ dosen_usage = EmptyMap
    /\ call = NoCall
    /\ kelas_conflicts_csv = NoFile
    /\ pc = "fix"

InitFix == InitFixWith(FixRows, FixRosters)

\* schedule files for what the repair leaves alone: rows of Monday morning in
\* a blacklisted and in a free room, and a row there whose day name is missing
FrameFixRows ==
    {FixFileRow(k, f, <<"SENIN", "03-Nov-25">>, "07.30 - 09.30", r) :
        k \in {"IT-06-A", "SI-01-A"},
        f \in {<<"Ujian Tulis", "45">>, <<"Ujian Lisan", "30">>},
        r \in {"GD KTT 2.08", "GKU 1.01"}}
    \cup
    {FixFileRow("SI-01-A", <<"Ujian Lisan", "30">>, <<"", "03-Nov-25">>,
                "07.30 - 09.30", "GKU 1.01")}

\* a roster whose one room is blacklisted all week, one with a free ordinary
\* room, one with the auditorium as the only room free on Monday
FrameFixRosters ==
    {<<"KTT 2.09">>, <<"GKU 1.01", "GD KTT 2.08">>, <<"GD KTT 2.08", "AULA">>}

InitFixFrame == InitFixWith(FrameFixRows, FrameFixRosters)

\* first pass of main: usage of the valid rows, indices of the blacklisted ones
FixFirstPass ==
    /\ pc = "fix"
    /\ LET S == fb_FirstPass([u |-> EmptyUsage, bl |-> <<>>],
                             generated_assignments, 1)
       IN /\ SetUsage(S.u)
          /\ order' = S.bl
          /\ pc' = IF S.bl = <<>> THEN "fixed" ELSE "fixloop"
    /\ pos' = 1
    /\ UNCHANGED <<ALL_ROOMS, items, generated_assignments>>
    /\ UNCHANGED auditVars
    /\ UNCHANGED call
    /\ UNCHANGED repairVars

\* second pass of main: one blacklisted row is given a new room or slot
FixBlacklistedRow ==
    /\ pc = "fixloop"
    /\ pos <= Len(order)
    /\ \E o \in fb_FixRow(CurrentUsage, ALL_ROOMS, generated_assignments[order[pos]]) :
          /\ SetUsage(o.u)
          /\ generated_assignments' =
                 [generated_assignments EXCEPT ![order[pos]] = o.row]
    /\ pos' = pos + 1
    /\ pc' = IF pos = Len(order) THEN "fixed" ELSE "fixloop"
    /\ UNCHANGED <<ALL_ROOMS, items, order>>
    /\ UNCHANGED auditVars
    /\ UNCHANGED call
    /\ UNCHANGED repairVars

NextFix == FixFirstPass \/ FixBlacklistedRow

SpecFix == InitFix /\ [][NextFix]_vars

(* ----------------------- uts/fix_conflicts.py -------------------------- *)
\* the key a row is looked up with in the conflict files
fc_Key(row, kode) == <<row.KELAS, row.TANGGAL, row.SHIFT, kode>>

\* "if key in conflict_keys or key_no_kode in conflict_keys"
fc_IsConflicted(keys, row) ==
    /\ row.KELAS # "" /\ row.TANGGAL # "" /\ row.SHIFT # ""
    /\ (fc_Key(row, row.KODE) \in keys \/ fc_Key(row, "") \in keys)

\* conflicted_row_indices
fc_ConflictedIndices(keys, rows) ==
    SelectSeq([i \in 1..Len(rows) |-> i], LAMBDA i : fc_IsConflicted(keys, rows[i]))

\* the usage maps after one row that is not conflicted; S.u holds the room and
\* class maps, S.d is dosen_usage
fc_UsageRow(S, row) ==
    IF row.HARI = "" \/ row.TANGGAL = "" \/ row.SHIFT = "" THEN S
    ELSE LET parsed == parse_existing_datetime(row.HARI, row.TANGGAL, row.SHIFT)
             date_key == StrftimeYMD(parsed[1])
             shift_key == format_time_range(parsed[1], parsed[2])
             U1 == IF row.RUANGAN # ""
                   THEN [S.u EXCEPT !.room_usage =
                                        IncCount(@, <<date_key, shift_key, row.RUANGAN>>)]
                   ELSE S.u
             U2 == IF row.KELAS # ""
                   THEN RegisterClass(U1, row.KELAS, parsed[1], parsed[2], date_key)
                   ELSE U1
             D1 == IF row.NAMA_DOSEN # ""
                   THEN AppendList(S.d, row.NAMA_DOSEN, <<parsed[1], parsed[2]>>)
                   ELSE S.d
         IN IF parsed = NoInterval THEN S ELSE [u |-> U2, d |-> D1]

RECURSIVE fc_BuildUsage(_, _, _, _)
fc_BuildUsage(S, rows, conflicted, i) ==
    IF i > Len(rows) THEN S
    ELSE fc_BuildUsage(IF \E k \in 1..Len(conflicted) : conflicted[k] = i
                       THEN S ELSE fc_UsageRow(S, rows[i]),
                       rows, conflicted, i + 1)

fc_is_dosen_conflict(D, dosen, start_dt, end_dt) ==
    IF dosen = "" THEN FALSE
    ELSE \E k \in 1..Len(GetList(D, dosen)) :
             ~(\/ end_dt <= GetList(D, dosen)[k][1]
               \/ start_dt >= GetList(D, dosen)[k][2])

fc_is_room_conflict(U, ruangan, date_key, shift_key) ==
    IF Upper(ruangan) = "AULA"
    THEN GetCount(U.room_usage, <<date_key, shift_key, ruangan>>) >= 2
    ELSE GetCount(U.room_usage, <<date_key, shift_key, ruangan>>) >= 1

\* dates_to_try: the original date when the row has a day name and a
\* readable date, then the allowed dates other than it
fc_dates_to_try(row) ==
    LET parsed_orig == parse_existing_datetime(row.HARI, row.TANGGAL, "07.30 - 09.30")
        first == IF row.HARI # "" /\ row.TANGGAL # "" /\ parsed_orig # NoInterval
                 THEN <<parsed_orig[1]>> ELSE <<>>
    IN first \o SelectSeq(iter_allowed_dates,
                          LAMBDA d : first = <<>> \/ DateOf(d) # DateOf(first[1]))

\* the (start, end) pairs of "for day_dt in dates_to_try: for shift in shifts"
fc_Slots(row) ==
    Flatten([i \in 1..Len(fc_dates_to_try(row)) |->
                generate_daily_shifts(fc_dates_to_try(row)[i])])

\* the rooms the search accepts in one slot
fc_RoomsAt(U, D, rooms, row, slot) ==
    LET jumlah_mhs == parse_int_safe(row.JUMLAH_MAHASISWA)
        allow_aula == Lower(row.BENTUK_UJIAN) = "ujian tulis" /\ jumlah_mhs >= 40
        date_key == StrftimeYMD(slot[1])
        shift_key == format_time_range(slot[1], slot[2])
    IN IF fb_is_class_conflict(U, row.KELAS, slot[1], slot[2]) THEN {}
       ELSE IF fc_is_dosen_conflict(D, row.NAMA_DOSEN, slot[1], slot[2]) THEN {}
       ELSE {r \in fb_pick_free_room(U, rooms, slot[1], date_key, shift_key,
                                     allow_aula, row.BENTUK_UJIAN, jumlah_mhs) \ {NoRoom} :
                ~fc_is_room_conflict(U, r, date_key, shift_key)}

\* regenerate one conflicted row: the outcomes hold the usage maps, the
\* lecturer map and the row
fc_FixRow(U, D, rooms, row) ==
    LET slots == fc_Slots(row)
        k == FirstIndex([i \in 1..Len(slots) |->
                            fc_RoomsAt(U, D, rooms, row, slots[i]) # {}])
    IN IF k = 0 THEN {[u |-> U, d |-> D, row |-> row]}
       ELSE {[u |-> fb_Register(U, row.KELAS, slots[k][1], slots[k][2], room),
              d |-> IF row.NAMA_DOSEN # ""
                    THEN AppendList(D, row.NAMA_DOSEN, <<slots[k][1], slots[k][2]>>)
                    ELSE D,
              row |-> [row EXCEPT !.HARI = weekday_name(slots[k][1]),
                                  !.TANGGAL = StrftimeDMY(slots[k][1]),
                                  !.SHIFT = format_time_range(slots[k][1], slots[k][2]),
                                  !.RUANGAN = room]] :
               room \in fc_RoomsAt(U, D, rooms, row, slots[k])}

\* a row of the schedule file of the conflict repair
FcFileRow(kelas, dosen, day, shift, ruangan) ==
    [idx |-> 0, HARI |-> day[1], TANGGAL |-> day[2], SHIFT |-> shift,
     RUANGAN |-> ruangan, KODE |-> "", NAMA |-> "", NAMA_DOSEN |-> dosen,
     KELAS |-> kelas, BENTUK_UJIAN |-> "Ujian Lisan", JUMLAH_MAHASISWA |-> "30"]

\* schedule files for the conflict repair: two classes and lecturers on
\* Wednesday morning, a row later that day, a row on Monday, a row whose day
\* name is missing, a row on the Monday after the exam week
FcRows ==
    {FcFileRow(k[1], k[2], <<"RABU", "05-Nov-25">>, "07.30 - 09.30", "GKU 1.01") :
        k \in {<<"IT-06-A", "Dosen A">>, <<"SI-01-A", "Dosen A">>,
               <<"SI-01-A", "Dosen B">>}}
    \cup
    {FcFileRow("IT-06-A", "Dosen A", <<"RABU", "05-Nov-25">>, "10.00 - 12.00", "GKU 1.01"),
     FcFileRow("IT-06-A", "Dosen A", <<"SENIN", "03-Nov-25">>, "07.30 - 09.30", "GKU 1.01"),
     FcFileRow("IT-06-A", "Dosen A", <<"", "05-Nov-25">>, "07.30 - 09.30", "GKU 1.01"),
     FcFileRow("IT-06-A", "Dosen A", <<"SENIN", "10-Nov-25">>, "07.30 - 09.30", "GKU 1.01")}

FcRosters == {<<"GKU 1.01">>, <<"GKU 1.01", "GD KTT 2.08">>}

\* the conflict files name a set of rows of the schedule, with their course
\* codes (class and room reports) or without (lecturer report)
FcKeySets(rows) ==
    {{fc_Key(rows[i], IF withKode THEN rows[i].KODE ELSE "") : i \in S} :
        S \in SUBSET (1..Len(rows)), withKode \in BOOLEAN}

InitFixConflictsWith(rowSpace, rosters) ==
    /\ ALL_ROOMS \in rosters
    /\ items = <<>>
    /\ order = <<>>
    /\ pos = 1
    /\ room_usage = EmptyMap
    /\ room_occupants = EmptyMap
    /\ class_usage = EmptyMap
    /\ class_daily_count = EmptyMap
    /\ \E n \in 1..MaxFixRows : \E rows \in [1..n -> rowSpace] :
          /\ generated_assignments = FileWithCodes(rows)
          /\ conflict_keys \in FcKeySets(FileWithCodes(rows))
    /\ records = <<>>
    /\ class_conflicts = <<>>
    /\ room_conflicts = <<>>
    /\ blacklist_violations = <<>>
    /\ dosen_conflicts = <<>>
    /\ dosen_usage = EmptyMap
    /\ call = NoCall
    /\ kelas_conflicts_csv = NoFile
    /\ pc = "fc"

InitFixConflicts == InitFixConflictsWith(FcRows, FcRosters)

\* a roster whose one room is blacklisted all week, and one ordinary room
FrameFcRosters == {<<"KTT 2.09">>, <<"GKU 1.01">>}

InitFixConflictsFrame == InitFixConflictsWith(FcRows, FrameFcRosters)

\* main up to the repair loop: nothing to do without conflict keys, else the
\* conflicted rows are listed and the usage maps built from the other rows
FcCollect ==
    /\ pc = "fc"
    /\ IF conflict_keys = {}
       THEN /\ pc' = "fcdone"
            /\ UNCHANGED <<order, dosen_usage>>
            /\ UNCHANGED allocVars
       ELSE LET conflicted == fc_ConflictedIndices(conflict_keys, generated_assignments)
                S == fc_BuildUsage([u |-> EmptyUsage, d |-> EmptyMap],
                                   generated_assignments, conflicted, 1)
            IN /\ order' = conflicted
               /\ SetUsage(S.u)
               /\ dosen_usage' = S.d
               /\ pc' = IF conflicted = <<>> THEN "fcdone" ELSE "fcloop"
    /\ pos' = 1
    /\ UNCHANGED <<ALL_ROOMS, items, generated_assignments, conflict_keys>>
    /\ UNCHANGED auditVars
    /\ UNCHANGED call

\* one round of "for idx in conflicted_row_indices"
FcFixRow ==
    /\ pc = "fcloop"
    /\ pos <= Len(order)
    /\ \E o \in fc_FixRow(CurrentUsage, dosen_usage, ALL_ROOMS,
                          generated_assignments[order[pos]]) :
          /\ SetUsage(o.u)
          /\ dosen_usage' = o.d
          /\ generated_assignments' =
                 [generated_assignments EXCEPT ![order[pos]] = o.row]
    /\ pos' = pos + 1
    /\ pc' = IF pos = Len(order) THEN "fcdone" ELSE "fcloop"
    /\ UNCHANGED <<ALL_ROOMS, items, order, conflict_keys>>
    /\ UNCHANGED auditVars
    /\ UNCHANGED call

NextFixConflicts == FcCollect \/ FcFixRow

SpecFixConflicts == InitFixConflicts /\ [][NextFixConflicts]_vars

\* either repair script is run on its schedule file
NextRepair == NextFix \/ NextFixConflicts

SpecRepair == (InitFixFrame \/ InitFixConflictsFrame) /\ [][NextRepair]_vars

(* --------------------- claims about the repair ------------------------ *)
\* the rows the second pass of the repair has gone through
FixedRowIndices ==
    IF pc \in {"fixloop", "fixed"} THEN {order[k] : k \in 1..(pos - 1)} ELSE {}

\* C11: a row that the repair has put into the auditorium is on Monday, or
\* on Tuesday in a shift starting at 13:00 or later, of the exam week.
C11_RepairAulaOnlyInWindow ==
    \A i \in FixedRowIndices :
        is_aula(generated_assignments[i].RUANGAN) =>
            /\ InAulaWindow(generated_assignments[i])
            /\ is_within_uts_week(RowInterval(generated_assignments[i])[1])

(* ------------------ claims about the steps of build_schedule ---------- *)
\* a step of the main loop in which the normal allocation of step 3 calls
\* pick_free_room for the row: the row asked for no room and the pairing step
\* found no auditorium slot for it
Step3PicksRoom ==
    /\ pc = "loop"
    /\ Len(generated_assignments') = Len(generated_assignments) + 1
    /\ PlacedByStep3(NewRow)
    /\ InputOf(NewRow).ruangan = ""
    /\ PairingIndex(CurrentUsage, InputOf(NewRow)) = 0

\* rooms of the roster free for the new row before the step: ordinary rooms
\* without a record in the slot, the auditorium with fewer than 2 records in
\* a slot of its time window; blacklisted rooms are left out
OrdinaryFreeBefore ==
    {r \in {ALL_ROOMS[i] : i \in 1..Len(ALL_ROOMS)} :
        /\ ~is_aula(r)
        /\ ~is_room_blacklisted_on_date(r, RowInterval(NewRow)[1])
        /\ GetCount(room_usage, <<StrftimeYMD(RowInterval(NewRow)[1]), NewRow.SHIFT, r>>) = 0}

AulaOpenBefore ==
    {r \in {ALL_ROOMS[i] : i \in 1..Len(ALL_ROOMS)} :
        /\ is_aula(r)
        /\ ~is_room_blacklisted_on_date(r, RowInterval(NewRow)[1])
        /\ GetCount(room_usage, <<StrftimeYMD(RowInterval(NewRow)[1]), NewRow.SHIFT, r>>) < 2
        /\ InAulaWindow(NewRow)}

RoomLeftFree(row, r) ==
    \A k \in 1..Len(generated_assignments) :
        ~(/\ generated_assignments[k].RUANGAN = r
          /\ generated_assignments[k].TANGGAL = row.TANGGAL
          /\ generated_assignments[k].SHIFT = row.SHIFT)

Step3NormalPlaces ==
    /\ pc = "loop"
    /\ Len(generated_assignments') = Len(generated_assignments) + 1
    /\ PlacedByStep3(NewRow)
    /\ PairingIndex(CurrentUsage, InputOf(NewRow)) = 0

IsAulaCandidate(it) ==
    IsUjianTulis(it.bentuk_ujian) /\ parse_int_safe(it.jumlah_mhs) > 0

\* the slot could have taken the new row before the step
SlotAcceptable(slot) ==
    RoomsAtSlot(CurrentUsage, ALL_ROOMS, InputOf(NewRow), slot[1], slot[2]) # {}

IsTuesdayAfternoon(slot) == Weekday(slot[1]) = 1 /\ TimeOf(slot[1]) >= 780
IsMondayMorning(slot) == Weekday(slot[1]) = 0 /\ TimeOf(slot[1]) < 780

\* an auditorium candidate lands on Monday morning only when no Tuesday slot
\* from 13:00 could take it
C13_TuesdayAfternoonFirst ==
    (Step3NormalPlaces /\ IsAulaCandidate(InputOf(NewRow))
                       /\ IsMondayMorning(RowInterval(NewRow))) =>
        \A k \in 1..Len(NaturalOrderSlots) :
            IsTuesdayAfternoon(NaturalOrderSlots[k]) =>
                ~SlotAcceptable(NaturalOrderSlots[k])

\* any other record lands in the earliest slot that could take it
C13_ChronologicalOtherwise ==
    (Step3NormalPlaces /\ ~IsAulaCandidate(InputOf(NewRow))) =>
        \A k \in 1..Len(NaturalOrderSlots) :
            NaturalOrderSlots[k][1] < RowInterval(NewRow)[1] =>
                ~SlotAcceptable(NaturalOrderSlots[k])

\* C13: step 3 visits the Tuesday slots from 13:00 before the Monday-morning
\* slots for an auditorium candidate, and the slots in chronological order
\* for any other record.
C13_CandidateOrder ==
    [][C13_TuesdayAfternoonFirst /\ C13_ChronologicalOtherwise]_vars

\* the main loop is at a row with day, date, shift and room
Step1Applies ==
    pc = "loop" /\ pos <= Len(order) /\ IsFullyFilled(items[order[pos]])

\* the usage maps after the step hold one more entry for the new row than before
RegisteredByStep ==
    LET iv == RowInterval(NewRow)
        date_key == StrftimeYMD(iv[1])
        slot_key == <<date_key, format_time_range(iv[1], iv[2]), NewRow.RUANGAN>>
    IN /\ GetCount(room_usage', slot_key) = GetCount(room_usage, slot_key) + 1
       /\ NewRow.KELAS # "" =>
              /\ GetList(class_usage', NewRow.KELAS)
                     = Append(GetList(class_usage, NewRow.KELAS), iv)
              /\ GetCount(class_daily_count', <<NewRow.KELAS, date_key>>)
                     = GetCount(class_daily_count, <<NewRow.KELAS, date_key>>) + 1
              /\ GetList(room_occupants', slot_key)
                     = Append(GetList(room_occupants, slot_key), NewRow.KELAS)

HasFixedTime(it) ==
    ~IsFullyFilled(it) /\ parse_existing_datetime(it.hari, it.tanggal, it.shift) # NoInterval

\* the main loop is at a row with a fixed time and no room
Step2Applies ==
    pc = "loop" /\ pos <= Len(order) /\ HasFixedTime(items[order[pos]])
                /\ items[order[pos]].ruangan = ""

\* the new row has the date and shift of its input row
KeepsInputTime ==
    /\ Len(generated_assignments') = Len(generated_assignments) + 1
    /\ NewRow.idx = order[pos]
    /\ RowInterval(NewRow) = parse_existing_datetime(InputOf(NewRow).hari,
                                 InputOf(NewRow).tanggal, InputOf(NewRow).shift)

\* C15 as stated: the row keeps its date and shift and gets a free room that
\* is not blacklisted, an ordinary one when there is one and the auditorium
\* otherwise; the room stays empty only when there is neither.
C15_Step2AnyFreeRoom ==
    [][Step2Applies =>
          /\ KeepsInputTime
          /\ IF OrdinaryFreeBefore # {} THEN NewRow.RUANGAN \in OrdinaryFreeBefore
             ELSE IF AulaOpenBefore # {} THEN NewRow.RUANGAN \in AulaOpenBefore
             ELSE NewRow.RUANGAN = ""]_vars

\* C15 amended: the row keeps its date and shift and gets an ordinary room
\* that is free in that slot and not blacklisted on that date; when there is
\* no such ordinary room the room stays empty, the auditorium is never given.
C15_Step2OrdinaryRoomOnly ==
    [][Step2Applies =>
          /\ KeepsInputTime
          /\ IF OrdinaryFreeBefore # {} THEN NewRow.RUANGAN \in OrdinaryFreeBefore
             ELSE NewRow.RUANGAN = ""]_vars

\* of two rows fixed to one slot the first got the only ordinary room and the
\* second stayed without room, the auditorium of the roster being empty
C15_Witness ==
    /\ AllocDone
    /\ \E i, j \in 1..Len(generated_assignments) :
           LET a == generated_assignments[i]
               b == generated_assignments[j]
           IN /\ i < j
              /\ HasFixedTime(InputOf(a)) /\ InputOf(a).ruangan = ""
              /\ HasFixedTime(InputOf(b)) /\ InputOf(b).ruangan = ""
              /\ IsOrdinaryRoom(a)
              /\ b.RUANGAN = ""
              /\ a.TANGGAL = b.TANGGAL /\ a.SHIFT = b.SHIFT
              /\ IsEligibleForAula(b) /\ InAulaWindow(b)
              /\ \E k \in 1..Len(ALL_ROOMS) :
                     /\ is_aula(ALL_ROOMS[k])
                     /\ GetCount(room_usage, <<StrftimeYMD(RowInterval(b)[1]), b.SHIFT,
                                               ALL_ROOMS[k]>>) = 0

\* the main loop is at a row with a fixed time that names a room
Step2WithRoom ==
    pc = "loop" /\ pos <= Len(order) /\ HasFixedTime(items[order[pos]])
                /\ items[order[pos]].ruangan # ""

\* the room named by the row at hand is blacklisted on the row's date, or a
\* row already written holds it in the very same slot (two rows for the
\* auditorium)
RequestedRoomUnavailable ==
    LET it == items[order[pos]]
        iv == parse_existing_datetime(it.hari, it.tanggal, it.shift)
        holders == {i \in 1..Len(generated_assignments) :
                       /\ generated_assignments[i].RUANGAN = it.ruangan
                       /\ RowInterval(generated_assignments[i]) = iv}
    IN \/ is_room_blacklisted_on_date(it.ruangan, iv[1])
       \/ Cardinality(holders) >= (IF is_aula(it.ruangan) THEN 2 ELSE 1)

\* C16: a row with fixed date and shift whose requested room is occupied in
\* that slot or blacklisted on that date is not given that room.
C16_RequestedRoomNotForced ==
    [][(Step2WithRoom /\ RequestedRoomUnavailable)
          => NewRow.RUANGAN # items[order[pos]].ruangan]_vars

\* every (start, end) pair step 3 can try
AllowedSlots ==
    {AulaOrderSlots[i] : i \in 1..Len(AulaOrderSlots)}
    \cup {NaturalOrderSlots[i] : i \in 1..Len(NaturalOrderSlots)}

\* room r of the roster can take record it in the slot, given the usage
\* before the step: not blacklisted, below its capacity, the class free and
\* under its daily limit, the auditorium only for a written exam with at
\* least 40 students inside its time window
CombinationFits(it, slot, r) ==
    LET used == GetCount(room_usage, <<StrftimeYMD(slot[1]),
                                       format_time_range(slot[1], slot[2]), r>>)
    IN /\ ~is_room_blacklisted_on_date(r, slot[1])
       /\ ~is_class_conflict(CurrentUsage, it.kelas, slot[1], slot[2])
       /\ IF is_aula(r)
          THEN /\ used < 2
               /\ IsUjianTulis(it.bentuk_ujian)
               /\ parse_int_safe(it.jumlah_mhs) >= 40
               /\ is_aula_time_allowed(slot[1], slot[1], slot[2])
          ELSE used = 0

\* the main loop is at a row without readable time and nothing fits it
Unplaceable ==
    /\ pc = "loop" /\ pos <= Len(order)
    /\ ~IsFullyFilled(items[order[pos]])
    /\ parse_existing_datetime(items[order[pos]].hari, items[order[pos]].tanggal,
                               items[order[pos]].shift) = NoInterval
    /\ \A slot \in AllowedSlots : \A k \in 1..Len(ALL_ROOMS) :
           ~CombinationFits(items[order[pos]], slot, ALL_ROOMS[k])

\* the descriptive cells of the row are those of its input row
SameDescription(row) ==
    /\ row.KODE = InputOf(row).kode_mk
    /\ row.NAMA = InputOf(row).nama_mk
    /\ row.NAMA_DOSEN = InputOf(row).nama_dosen
    /\ row.KELAS = InputOf(row).kelas
    /\ row.BENTUK_UJIAN = InputOf(row).bentuk_ujian
    /\ row.JUMLAH_MAHASISWA = InputOf(row).jumlah_mhs

\* while the loop runs one row has been written per record handled, and at
\* the end every input record has exactly one row, with its description
OneRowPerInput ==
    /\ pc = "loop" => Len(generated_assignments) = pos - 1
    /\ \A j \in 1..Len(generated_assignments) : SameDescription(generated_assignments[j])
    /\ AllocDone =>
          /\ Len(generated_assignments) = Len(items)
          /\ \A i \in 1..Len(items) :
                Cardinality({j \in 1..Len(generated_assignments) :
                                generated_assignments[j].idx = i}) = 1

MondayFirstSlot == <<Dt(0, 450), Dt(0, 570)>>

\* input rows that ask for the auditorium in the slot: written, at least 40
\* students, date and shift filled in
AulaRequestsAt(slot) ==
    {i \in 1..Len(items) :
        /\ is_aula(items[i].ruangan)
        /\ IsUjianTulis(items[i].bentuk_ujian)
        /\ parse_int_safe(items[i].jumlah_mhs) >= 40
        /\ parse_existing_datetime(items[i].hari, items[i].tanggal, items[i].shift) = slot}

\* output rows that hold the auditorium in the slot
AulaHoldersAt(slot) ==
    {j \in 1..Len(generated_assignments) :
        /\ is_aula(generated_assignments[j].RUANGAN)
        /\ RowInterval(generated_assignments[j]) = slot}

\* C18: of the written exams with 45 and 50 students that ask for the
\* auditorium on Monday 03-Nov-25 at 07.30 two are placed there and a third
\* is not: the auditorium holds at most 2 rows in the slot.
C18_AulaThirdRequestRejected ==
    AllocDone =>
        /\ Cardinality(AulaRequestsAt(MondayFirstSlot)) >= 2
              => Cardinality(AulaHoldersAt(MondayFirstSlot)) >= 2
        /\ Cardinality(AulaHoldersAt(MondayFirstSlot)) <= 2

(* ------------------ claims about scenarios of the auditor -------------- *)
\* records i and j are of class IT-06-A on the date cell, one with shift
\* 07.30-09.30 and one with shift 08.30-10.30
IsShiftPair(i, j, tanggal) ==
    /\ records[i].KELAS = "IT-06-A" /\ records[j].KELAS = "IT-06-A"
    /\ records[i].TANGGAL = tanggal /\ records[j].TANGGAL = tanggal
    /\ {records[i].SHIFT, records[j].SHIFT} = {"07.30-09.30", "08.30-10.30"}

\* the pair entries of the class report that name records i and j
PairEntriesOf(i, j) ==
    {k \in 1..Len(class_conflicts) :
        /\ IsPairEntry(class_conflicts[k])
        /\ class_conflicts[k].KODE_1 = records[i].KODE
        /\ class_conflicts[k].KODE_2 = records[j].KODE}

\* every such pair has exactly one pair entry, and a file of just the two
\* records gives a class report of one entry
ShiftPairReportedOnce(tanggal) ==
    Audited =>
        \A i, j \in 1..Len(records) :
            (i < j /\ IsShiftPair(i, j, tanggal)) =>
                /\ Cardinality(PairEntriesOf(i, j)) = 1
                /\ Len(records) = 2 => Len(class_conflicts) = 1

\* C19 as stated: two records of class IT-06-A with the date cell 2025-11-03
\* and the shifts 07.30-09.30 and 08.30-10.30 give exactly one class-conflict
\* pair.
C19_ShiftPairIsoDate == ShiftPairReportedOnce("2025-11-03")

\* C19 amended: two records of class IT-06-A with the date cell 03-Nov-25
\* and the shifts 07.30-09.30 and 08.30-10.30 give exactly one class-conflict
\* pair.
C19_ShiftPairFileDate == ShiftPairReportedOnce("03-Nov-25")

\* the file of the two records was audited and the class report has its one
\* pair entry
C19_Witness ==
    /\ Audited
    /\ Len(records) = 2
    /\ IsShiftPair(1, 2, "03-Nov-25")
    /\ Len(class_conflicts) = 1
    /\ PairEntriesOf(1, 2) = {1}

\* the two rules of the blackout: a set of suffixes and the last weekday
BlackoutRules ==
    {<<CC_BLACKLIST_MON_WED_SUFFIXES, 2>>, <<CC_BLACKLIST_MON_FRI_SUFFIXES, 4>>}

\* the predicate in the words of the claim; day counts from 03-Nov-25
BlackedOut(room, day) ==
    \E rule \in BlackoutRules :
        /\ \E suf \in rule[1] : EndsWith(room, suf)
        /\ CC_START_DATE <= day /\ day <= CC_END_DATE
        /\ day % 7 <= rule[2]

\* the room names and the days the predicate is compared on
BlackoutRoomNames == {"KTT 2.08", "GD KTT 2.08", "KTT 2.09", "GKU 1.01", "AULA", ""}
BlackoutDays == 0..13

PredicateAsStated ==
    \A room \in BlackoutRoomNames : \A day \in BlackoutDays :
        cc_is_room_blacklisted_on_date(room, Dt(day, 450)) <=> BlackedOut(room, day)

\* the blacklist report has an entry for the record
BlackoutReported(rec) ==
    \E k \in 1..Len(blacklist_violations) :
        /\ blacklist_violations[k].MATA_KULIAH = rec.NAMA
        /\ blacklist_violations[k].RUANGAN = rec.RUANGAN
        /\ blacklist_violations[k].TANGGAL = rec.TANGGAL
        /\ blacklist_violations[k].SHIFT = rec.SHIFT

\* the room of the record is blacked out on the date of its date cell
BlackedOutOnItsDate(rec) ==
    /\ StrptimeDate(rec.TANGGAL) # -1
    /\ BlackedOut(rec.RUANGAN, StrptimeDate(rec.TANGGAL))

\* KTT 2.08 is reported on Monday 03-Nov-25 and not on Monday 10-Nov-25
BlackoutScenario ==
    \A i \in 1..Len(records) :
        (records[i].RUANGAN = "KTT 2.08" /\ records[i].SHIFT = "07.30 - 09.30") =>
            /\ records[i].TANGGAL = "03-Nov-25" => BlackoutReported(records[i])
            /\ records[i].TANGGAL = "10-Nov-25" => ~BlackoutReported(records[i])

\* C20 as stated: a room is blacklisted on a date exactly when a suffix
\* matches, the date is in the window and the weekday is within the rule's
\* bound; a record is reported exactly when its room is blacklisted on its date.
C20_ReportedIffBlackedOut ==
    /\ PredicateAsStated
    /\ Audited =>
          /\ \A i \in 1..Len(records) :
                BlackoutReported(records[i]) <=> BlackedOutOnItsDate(records[i])
          /\ BlackoutScenario

\* C20 amended: the predicate as stated; a record is reported exactly when
\* its date and shift cells both parse and its room is blacklisted on that
\* date, and every entry of the report belongs to a record.
C20_ReportedIffParsedAndBlackedOut ==
    /\ PredicateAsStated
    /\ Audited =>
          /\ \A i \in 1..Len(records) :
                BlackoutReported(records[i]) <=>
                    (HasInterval(records[i]) /\ BlackedOutOnItsDate(records[i]))
          /\ \A k \in 1..Len(blacklist_violations) :
                \E i \in 1..Len(records) :
                    blacklist_violations[k].MATA_KULIAH = records[i].NAMA
          /\ BlackoutScenario

\* KTT 2.08 was audited on Monday 03-Nov-25 and on Monday 10-Nov-25, once
\* more with a shift cell that does not parse: only the first is reported
C20_Witness ==
    /\ Audited
    /\ \E i, j, k \in 1..Len(records) :
          /\ records[i].RUANGAN = "KTT 2.08" /\ records[i].TANGGAL = "03-Nov-25"
          /\ HasInterval(records[i]) /\ BlackoutReported(records[i])
          /\ records[j].RUANGAN = "KTT 2.08" /\ records[j].TANGGAL = "10-Nov-25"
          /\ HasInterval(records[j]) /\ ~BlackoutReported(records[j])
          /\ records[k].RUANGAN = "KTT 2.08" /\ records[k].TANGGAL = "03-Nov-25"
          /\ ~HasInterval(records[k]) /\ ~BlackoutReported(records[k])

(* --------------- claims about the rules of both programs --------------- *)
\* the days the two blackout predicates are compared on: the exam week, the
\* weekend and the week after it
ComparedDays == 0..13

\* C21: for every room of the roster and every day, is_room_blacklisted_on_date
\* of generate_schedule.py and of check_conflicts.py give the same answer.
C21_BlackoutInSync ==
    \A k \in 1..Len(ALL_ROOMS) : \A day \in ComparedDays :
        is_room_blacklisted_on_date(ALL_ROOMS[k], Dt(day, 450))
            <=> cc_is_room_blacklisted_on_date(ALL_ROOMS[k], Dt(day, 450))

\* the lecturer report has the entry of records[i] and records[j]
DosenPairReported(i, j) ==
    \E k \in 1..Len(dosen_conflicts) :
        /\ dosen_conflicts[k].DOSEN = records[i].NAMA_DOSEN
        /\ dosen_conflicts[k].MATA_KULIAH_1 = records[i].NAMA
        /\ dosen_conflicts[k].SHIFT_1 = records[i].SHIFT
        /\ dosen_conflicts[k].TANGGAL_1 = records[i].TANGGAL
        /\ dosen_conflicts[k].MATA_KULIAH_2 = records[j].NAMA
        /\ dosen_conflicts[k].SHIFT_2 = records[j].SHIFT
        /\ dosen_conflicts[k].TANGGAL_2 = records[j].TANGGAL

\* records i and j name the same lecturer and both have an interval
SameLecturerParsed(i, j) ==
    /\ records[i].NAMA_DOSEN # ""
    /\ records[i].NAMA_DOSEN = records[j].NAMA_DOSEN
    /\ HasInterval(records[i]) /\ HasInterval(records[j])

\* C22: after find_dosen_conflicts, two records with the same lecturer name
\* and parseable intervals are reported as a lecturer conflict exactly when
\* their intervals overlap, whatever their date cells and classes; the
\* report has no other entries.
C22_LecturerPairReportedIffOverlap ==
    Audited =>
        /\ \A i, j \in 1..Len(records) :
              (i < j /\ SameLecturerParsed(i, j)) =>
                  (DosenPairReported(i, j) <=> IntervalsOverlap(i, j))
        /\ \A k \in 1..Len(dosen_conflicts) :
              \E i, j \in 1..Len(records) :
                  /\ i < j /\ SameLecturerParsed(i, j)
                  /\ dosen_conflicts[k].MATA_KULIAH_1 = records[i].NAMA
                  /\ dosen_conflicts[k].MATA_KULIAH_2 = records[j].NAMA

\* a pair of one lecturer with different classes and differently written
\* date cells is reported, a pair of that lecturer that does not overlap is not
C22_Witness ==
    /\ Audited
    /\ \E i, j \in 1..Len(records) :
          /\ i < j /\ SameLecturerParsed(i, j) /\ IntervalsOverlap(i, j)
          /\ records[i].TANGGAL # records[j].TANGGAL
          /\ DosenPairReported(i, j)
    /\ \E i, j \in 1..Len(records) :
          /\ i < j /\ SameLecturerParsed(i, j) /\ IntervalsOverlap(i, j)
          /\ records[i].KELAS # records[j].KELAS
          /\ DosenPairReported(i, j)
    /\ \E i, j \in 1..Len(records) :
          /\ i < j /\ SameLecturerParsed(i, j) /\ ~IntervalsOverlap(i, j)
          /\ ~DosenPairReported(i, j)

(* ----------------------- calls of the parsers -------------------------- *)
\* date cells: the three accepted formats, a year-month-day date, a blank
DateCells == {"", "03-Nov-25", "04/11/2025", "2025-11-03", "10-Nov-25"}

\* shift cells: readable ones, one token, three tokens, a token that is not
\* H.M, hours and minutes that no clock shows
ShiftCells ==
    {"", "07.30 - 09.30", "07.30-09.30", "13.00 - 15.00", "07:30 - 09:30", "07.30",
     "07.30 - 09.30 - 11.30", "07.30 - 9", "25.00 - 27.00", "25.00 - 9",
     "07.60 - 09.30", "07.30 - 24.00"}

Pending == <<"pending">>

InitParse ==
    /\ ALL_ROOMS = <<>>
    /\ items = <<>>
    /\ order = <<>>
    /\ pos = 1
    /\ room_usage = EmptyMap
    /\ room_occupants = EmptyMap
    /\ class_usage = EmptyMap
    /\ class_daily_count = EmptyMap
    /\ generated_assignments = <<>>
    /\ records = <<>>
    /\ class_conflicts = <<>>
    /\ room_conflicts = <<>>
    /\ blacklist_violations = <<>>
    /\ dosen_conflicts = <<>>
    /\ conflict_keys = {}
    /\ dosen_usage = EmptyMap
    /\ \E d \in DateCells, sh \in ShiftCells :
          call = [fn |-> "", date |-> d, shift |-> sh, outcome |-> Pending]
    /\ kelas_conflicts_csv = NoFile
    /\ pc = "parse"

\* check_conflicts.parse_time_range(date, shift)
CallParseTimeRange ==
    /\ pc = "parse"
    /\ call' = [call EXCEPT !.fn = "parse_time_range",
                            !.outcome = parse_time_range(call.date, call.shift)]
    /\ pc' = "parsed"
    /\ UNCHANGED <<ALL_ROOMS, items, order, pos, generated_assignments>>
    /\ UNCHANGED allocVars
    /\ UNCHANGED auditVars
    /\ UNCHANGED repairVars

\* generate_schedule.parse_existing_datetime(hari, date, shift)
CallParseExistingDatetime ==
    /\ pc = "parse"
    /\ call' = [call EXCEPT !.fn = "parse_existing_datetime",
                            !.outcome = parse_existing_datetime("SENIN", call.date,
                                                                call.shift)]
    /\ pc' = "parsed"
    /\ UNCHANGED <<ALL_ROOMS, items, order, pos, generated_assignments>>
    /\ UNCHANGED allocVars
    /\ UNCHANGED auditVars
    /\ UNCHANGED repairVars

NextParse == CallParseTimeRange \/ CallParseExistingDatetime

SpecParse == InitParse /\ [][NextParse]_vars

(* ------------------ claims about the repair scripts -------------------- *)
\* the row a round of the conflict repair works on, before and after it
FcRowBefore == generated_assignments[order[pos]]
FcRowAfter == generated_assignments'[order[pos]]

\* a round of the conflict repair that leaves the row on another date than
\* the one its date cell named
FcMovesToOtherDate ==
    /\ pc = "fcloop"
    /\ pos' = pos + 1
    /\ StrptimeDate(FcRowBefore.TANGGAL) # -1
    /\ StrptimeDate(FcRowAfter.TANGGAL) # StrptimeDate(FcRowBefore.TANGGAL)

\* some shift of the row's original date is free of class and lecturer
\* conflicts and has a free room for the row
FcOriginalDateHasSlot ==
    LET slots == generate_daily_shifts(Dt(StrptimeDate(FcRowBefore.TANGGAL), 0))
    IN \E i \in 1..Len(slots) :
           fc_RoomsAt(CurrentUsage, dosen_usage, ALL_ROOMS, FcRowBefore, slots[i]) # {}

\* C23: the conflict repair moves a row to a different date only if no shift
\* of its original date satisfies the constraints with a free room.
C23_FixConflictsOriginalDateFirst ==
    [][FcMovesToOtherDate => ~FcOriginalDateHasSlot]_vars

\* the same for the blackout repair: the row a round works on, and the
\* shifts of its original date that are free of class conflicts with a room
FbRowBefore == generated_assignments[order[pos]]
FbRowAfter == generated_assignments'[order[pos]]

FbMovesToOtherDate ==
    /\ pc = "fixloop"
    /\ pos' = pos + 1
    /\ StrptimeDate(FbRowBefore.TANGGAL) # -1
    /\ StrptimeDate(FbRowAfter.TANGGAL) # StrptimeDate(FbRowBefore.TANGGAL)

FbOriginalDateHasSlot ==
    LET jumlah_mhs == parse_int_safe(FbRowBefore.JUMLAH_MAHASISWA)
        allow_aula == Lower(FbRowBefore.BENTUK_UJIAN) = "ujian tulis" /\ jumlah_mhs >= 40
    IN fb_SlotIndex(CurrentUsage, ALL_ROOMS, FbRowBefore,
                    generate_daily_shifts(Dt(StrptimeDate(FbRowBefore.TANGGAL), 0)),
                    allow_aula, jumlah_mhs) # 0

\* the blackout repair moves a row to a different date only if no shift of
\* its original date is free of class conflicts with a free room
FixBlacklistedOriginalDateFirst ==
    [][FbMovesToOtherDate => ~FbOriginalDateHasSlot]_vars

\* a row has been moved to another date by the blackout repair
FixBlacklistedMovedDate ==
    /\ pc \in {"fixloop", "fixed"}
    /\ \E i \in FixedRowIndices :
          /\ generated_assignments[i].RUANGAN # "GD KTT 2.08"
          /\ generated_assignments[i].TANGGAL \notin {"03-Nov-25", "05-Nov-25", "06-Nov-25"}

(* ------------------ claims about termination --------------------------- *)
\* the record the main loop is about to work on
AtRecord == pc = "loop" /\ pos <= Len(order)
CurrentItem == items[order[pos]]
InStep3(it) ==
    ~IsFullyFilled(it) /\ parse_existing_datetime(it.hari, it.tanggal, it.shift) = NoInterval

\* rounds of the pairing loop for a record: to its first accepted slot, or
\* through the list
PairingRounds(U, it) ==
    IF PairingIndex(U, it) > 0 THEN PairingIndex(U, it) ELSE Len(AulaOrderSlots)

\* rounds of the normal loop: none after a pairing, else to the first slot
\* with a room, or through the list
NormalRounds(U, rooms, it) ==
    IF PairingIndex(U, it) > 0 THEN 0
    ELSE IF NormalIndex(U, rooms, it) > 0 THEN NormalIndex(U, rooms, it)
    ELSE Len(CandidateSlots(it))

\* pick_free_room walks the roster once in each round of the normal loop
RoomVisits(U, rooms, it) == NormalRounds(U, rooms, it) * Len(rooms)

DateRangeDays == END_DATE - START_DATE + 1
ShiftsPerDay == Len(ALLOWED_SHIFT_STARTS)

SearchBounded ==
    (AtRecord /\ InStep3(CurrentItem)) =>
        /\ PairingRounds(CurrentUsage, CurrentItem) <= DateRangeDays * ShiftsPerDay
        /\ NormalRounds(CurrentUsage, ALL_ROOMS, CurrentItem) <= DateRangeDays * ShiftsPerDay
        /\ RoomVisits(CurrentUsage, ALL_ROOMS, CurrentItem)
               <= DateRangeDays * ShiftsPerDay * Len(ALL_ROOMS)

\* C24: build_schedule ends for every input list and roster; the main loop
\* takes one round per record, and for each record the slot loops take at most
\* (days of the date range) x 4 rounds, each walking the roster once.
C24_AllocationTerminates ==
    /\ <>(pc = "done")
    /\ [](pos <= Len(items) + 1)
    /\ []SearchBounded

\* the run has ended and a record went through every slot without a place
C24_Witness ==
    /\ pc = "done"
    /\ Len(generated_assignments) = Len(items)
    /\ \E i \in 1..Len(generated_assignments) :
          /\ InStep3(items[generated_assignments[i].idx])
          /\ generated_assignments[i].TANGGAL = ""

(* ------------------ claims about the time cells of a record ------------ *)
OnlyOneTimeCell(it) == (it.tanggal = "") # (it.shift = "")

UnreadableTime(it) ==
    /\ it.tanggal # "" /\ it.shift # ""
    /\ parse_existing_datetime(it.hari, it.tanggal, it.shift) = NoInterval

\* C25: in every row build_schedule has written, the date cell is filled if
\* and only if the shift cell is filled.
C25_DateIffShift ==
    \A i \in 1..Len(generated_assignments) :
        (generated_assignments[i].TANGGAL # "") <=> (generated_assignments[i].SHIFT # "")

\* a finished run with a row whose input carried only one of the two cells
\* and came out without time, and a row whose input time was unreadable
C25_Witness ==
    /\ pc = "done"
    /\ \E i \in 1..Len(generated_assignments) :
          /\ OnlyOneTimeCell(InputOf(generated_assignments[i]))
          /\ generated_assignments[i].TANGGAL = ""
          /\ generated_assignments[i].SHIFT = ""
    /\ \E i \in 1..Len(generated_assignments) :
          UnreadableTime(InputOf(generated_assignments[i]))

\* a row whose input carried only one of the two cells was given a slot
C25_WitnessPlaced ==
    \E i \in 1..Len(generated_assignments) :
        /\ OnlyOneTimeCell(InputOf(generated_assignments[i]))
        /\ generated_assignments[i].TANGGAL # ""
        /\ generated_assignments[i].SHIFT # ""

(* ------------------ claims about records without interval -------------- *)
\* the class report has a pair entry that names the record
ClassPairNames(rec) ==
    \E k \in 1..Len(class_conflicts) :
        /\ IsPairEntry(class_conflicts[k])
        /\ class_conflicts[k].KODE_1 = rec.KODE \/ class_conflicts[k].KODE_2 = rec.KODE

\* the lecturer report has an entry that names the record
DosenEntryNames(rec) ==
    \E k \in 1..Len(dosen_conflicts) :
        \/ dosen_conflicts[k].MATA_KULIAH_1 = rec.NAMA
        \/ dosen_conflicts[k].MATA_KULIAH_2 = rec.NAMA

\* the records are the rows of the file, less repeated keys
AllRowsRetained ==
    records = deduplicate_records(read_schedule(generated_assignments))

\* C26: after the audit, a record without a parsed interval is in none of the
\* class, room, lecturer and blackout reports, and is still among the records.
C26_UnparsedExcludedFromReports ==
    Audited =>
        /\ AllRowsRetained
        /\ \A i \in 1..Len(records) :
              ~HasInterval(records[i]) =>
                  /\ ~ClassPairNames(records[i])
                  /\ ~RoomReported(records[i])
                  /\ ~DosenEntryNames(records[i])
                  /\ ~BlackoutReported(records[i])

\* the same without the room report
UnparsedExcludedFromOtherReports ==
    Audited =>
        /\ AllRowsRetained
        /\ \A i \in 1..Len(records) :
              ~HasInterval(records[i]) =>
                  /\ ~ClassPairNames(records[i])
                  /\ ~DosenEntryNames(records[i])
                  /\ ~BlackoutReported(records[i])

(* ------------------ claims about the parsers --------------------------- *)
\* the steps of the parse, read off the cells: a date in one of the three
\* formats; two tokens around one '-'; both tokens H.M; hours and minutes of
\* a clock
DateReadable(d) == d \in {"03-Nov-25", "04/11/2025", "10-Nov-25"}
TwoTokens(sh) == sh \notin {"", "07.30", "07.30 - 09.30 - 11.30"}
TokensAreHM(sh) == TwoTokens(sh) /\ sh \notin {"07:30 - 09:30", "07.30 - 9", "25.00 - 9"}
ClockTimes(sh) ==
    TokensAreHM(sh) /\ sh \notin {"25.00 - 27.00", "07.60 - 09.30", "07.30 - 24.00"}

SomeStepFails(d, sh) == ~(DateReadable(d) /\ ClockTimes(sh))

\* C27: a call of a parser with a date or shift cell on which some step
\* fails returns no interval, and no call raises.
C27_MalformedNeverRaises ==
    pc = "parsed" =>
        /\ call.outcome # ValueError
        /\ SomeStepFails(call.date, call.shift) => call.outcome = NoInterval

\* the same for the failures other than an hour or minute out of range
MalformedTextGivesNoInterval ==
    (pc = "parsed" /\ ~(DateReadable(call.date) /\ TokensAreHM(call.shift))) =>
        call.outcome = NoInterval

(* ------------------ claims about the written class report -------------- *)
\* row i of kelas-conflicts.csv holds field f of entry i under a column f
FieldWritten(i, f) ==
    \E j \in 1..Len(kelas_conflicts_csv.cols) :
        /\ kelas_conflicts_csv.cols[j] = f
        /\ kelas_conflicts_csv.rows[i][j] = class_conflicts[i][f]

MixedReport ==
    /\ \E k \in 1..Len(class_conflicts) : IsPairEntry(class_conflicts[k])
    /\ \E k \in 1..Len(class_conflicts) : IsLimitEntry(class_conflicts[k])

\* C28: in a class report that holds pair entries and quota entries, every
\* written row has every field of its own entry.
C28_MixedReportKeepsShapes ==
    (Audited /\ MixedReport) =>
        \A i \in 1..Len(class_conflicts) :
            \A f \in DOMAIN class_conflicts[i] : FieldWritten(i, f)

\* a report of one kind of entry is written whole
UniformReportKeepsShapes ==
    (Audited /\ ~MixedReport) =>
        \A i \in 1..Len(class_conflicts) :
            \A f \in DOMAIN class_conflicts[i] : FieldWritten(i, f)

(* ------------------ claims about deduplicate_records ------------------- *)
\* the records as read from the file, before the removal of repeats
RecordsRead == read_schedule(generated_assignments)

Deduplicated == pc \in {"class", "room", "blacklist", "dosen", "audited"}

RecordKey(rec) == <<rec.KELAS, rec.TANGGAL, rec.SHIFT, rec.KODE>>

\* a is b with some elements left out
RECURSIVE IsSubsequence(_, _)
IsSubsequence(a, b) ==
    IF a = <<>> THEN TRUE
    ELSE IF b = <<>> THEN FALSE
    ELSE IF Head(a) = Head(b) THEN IsSubsequence(Tail(a), Tail(b))
    ELSE IsSubsequence(a, Tail(b))

\* the first record read that has the key k
FirstWithKey(k) ==
    RecordsRead[CHOOSE i \in 1..Len(RecordsRead) :
                    /\ RecordKey(RecordsRead[i]) = k
                    /\ \A j \in 1..(i - 1) : RecordKey(RecordsRead[j]) # k]

\* C29: the records after deduplicate_records are a subsequence of the records
\* read, no two have the same (class, date, shift, course code), each is the
\* first record read with its key, every key read is still there, and a second
\* application changes nothing.
C29_DeduplicateKeepsFirst ==
    Deduplicated =>
        /\ IsSubsequence(records, RecordsRead)
        /\ \A i, j \in 1..Len(records) :
              i # j => RecordKey(records[i]) # RecordKey(records[j])
        /\ \A i \in 1..Len(records) : records[i] = FirstWithKey(RecordKey(records[i]))
        /\ \A i \in 1..Len(RecordsRead) :
              \E j \in 1..Len(records) : RecordKey(records[j]) = RecordKey(RecordsRead[i])
        /\ deduplicate_records(records) = records

\* a file in which a key repeats in another room: the later record is gone,
\* a record between the two is kept
C29_Witness ==
    /\ Deduplicated
    /\ Len(RecordsRead) = 3
    /\ Len(records) = 2
    /\ RecordKey(RecordsRead[1]) = RecordKey(RecordsRead[3])
    /\ RecordsRead[1].RUANGAN # RecordsRead[3].RUANGAN
    /\ records = <<RecordsRead[1], RecordsRead[2]>>

(* ------------------ claims about the slot grid ------------------------- *)
\* the days 2025-11-03 .. 2025-11-07 as day numbers, and the four starts in
\* minutes after midnight
ExamWeekDays == 0..4
GridStarts == {7 * 60 + 30, 10 * 60, 13 * 60, 15 * 60 + 30}

\* the slots of the grid as the loops of build_schedule go through them
GridSlots == {NaturalOrderSlots[i] : i \in 1..Len(NaturalOrderSlots)}

\* C30: the allowed dates are the weekdays of 2025-11-03 .. 2025-11-07, each
\* has four shifts of 120 minutes starting 07:30, 10:00, 13:00 and 15:30, no
\* two slots of the grid overlap, and the slots build_schedule hands out are
\* slots of this grid.
C30_SlotGrid ==
    /\ {DateOf(iter_allowed_dates[i]) : i \in 1..Len(iter_allowed_dates)}
           = {d \in ExamWeekDays : d % 7 < 5}
    /\ Len(iter_allowed_dates) = Cardinality({d \in ExamWeekDays : d % 7 < 5})
    /\ \A i \in 1..Len(iter_allowed_dates) :
          LET shifts == generate_daily_shifts(iter_allowed_dates[i])
          IN /\ Len(shifts) = 4
             /\ {shifts[k][1] : k \in 1..4}
                    = {Dt(DateOf(iter_allowed_dates[i]), m) : m \in GridStarts}
             /\ \A k \in 1..4 : shifts[k][2] = shifts[k][1] + 120
    /\ Cardinality(GridSlots) = 4 * Len(iter_allowed_dates)
    /\ \A a, b \in GridSlots : a # b => ~Overlap(a[1], a[2], b[1], b[2])
    /\ \A i \in 1..Len(generated_assignments) :
          PlacedByStep3(generated_assignments[i]) =>
              RowInterval(generated_assignments[i]) \in GridSlots

\* a finished run in which step 3 has handed out two different slots
C30_Witness ==
    /\ pc = "done"
    /\ \E i, j \in 1..Len(generated_assignments) :
          /\ PlacedByStep3(generated_assignments[i])
          /\ PlacedByStep3(generated_assignments[j])
          /\ RowInterval(generated_assignments[i]) # RowInterval(generated_assignments[j])

(* ------------------ claims about the pairing step ---------------------- *)
\* the record is a written exam with at least 40 students that step 3 places
IsPairingRecord(it) ==
    InStep3(it) /\ IsUjianTulis(it.bentuk_ujian) /\ parse_int_safe(it.jumlah_mhs) >= 40

\* the slots of the auditorium window in which the schedule written so far
\* holds exactly one row in the auditorium, of a class with the prefix of the
\* record, and in which the class of the record has no conflict
PairableSlots(it) ==
    {i \in 1..Len(AulaOrderSlots) :
        LET slot == AulaOrderSlots[i] IN
        /\ is_aula_time_allowed(slot[1], slot[1], slot[2])
        /\ Cardinality(AulaHoldersAt(slot)) = 1
        /\ \A j \in AulaHoldersAt(slot) :
               /\ Prefix2(generated_assignments[j].KELAS) # ""
               /\ Prefix2(generated_assignments[j].KELAS) = Prefix2(it.kelas)
        /\ ~is_class_conflict(CurrentUsage, it.kelas, slot[1], slot[2])}

\* the step has put the record into the auditorium in one of these slots
PairedInto(slots) ==
    /\ Len(generated_assignments') = Len(generated_assignments) + 1
    /\ NewRow.RUANGAN = AULA_NAME
    /\ \E i \in slots : RowInterval(NewRow) = AulaOrderSlots[i]

\* C31: a written exam with at least 40 students and without date and shift
\* is placed in the auditorium slot of the window that already holds exactly
\* one row of a class with its prefix and is free for its class, whenever
\* there is such a slot, before any other room is looked at.
C31_PairingPrecedence ==
    [][(AtRecord /\ IsPairingRecord(CurrentItem) /\ PairableSlots(CurrentItem) # {})
          => PairedInto(PairableSlots(CurrentItem))]_vars

\* the same with the occupancy read from the usage maps, as the pairing loop
\* reads it: the auditorium counted once in the slot and the first class
\* entered there of the prefix of the record
PairingTakesFirstCountedSlot ==
    [][(AtRecord /\ IsPairingRecord(CurrentItem)
                 /\ PairingIndex(CurrentUsage, CurrentItem) > 0)
          => PairedInto({PairingIndex(CurrentUsage, CurrentItem)})]_vars

\* a record has been paired with a row the allocator had placed before it
PairingHappened ==
    /\ AllocDone
    /\ \E i, j \in 1..Len(generated_assignments) :
           LET a == generated_assignments[i]
               b == generated_assignments[j]
           IN /\ i < j
              /\ PlacedByStep3(a) /\ PlacedByStep3(b)
              /\ a.RUANGAN = AULA_NAME /\ b.RUANGAN = AULA_NAME
              /\ RowInterval(a) = RowInterval(b)

(* ------------------ claims about the daily quota ----------------------- *)
\* the interval input row i is scheduled at: the one of its output row once
\* the main loop has written it, the one of its own cells before
ScheduledInterval(i) ==
    IF \E j \in 1..Len(generated_assignments) : generated_assignments[j].idx = i
    THEN RowInterval(generated_assignments[
             CHOOSE j \in 1..Len(generated_assignments) :
                 generated_assignments[j].idx = i])
    ELSE parse_existing_datetime(items[i].hari, items[i].tanggal, items[i].shift)

\* the exams of a class that are scheduled on a day
ExamsOn(kelas, day) ==
    {i \in 1..Len(items) :
        /\ items[i].kelas = kelas
        /\ ScheduledInterval(i) # NoInterval
        /\ DateOf(ScheduledInterval(i)[1]) = day}

\* the slots the two loops of step 3 go through for a record
VisitedSlots(U, rooms, it) ==
    {AulaOrderSlots[i] : i \in 1..PairingRounds(U, it)}
    \cup {CandidateSlots(it)[i] : i \in 1..NormalRounds(U, rooms, it)}

\* is_class_conflict turns the slot down and no registered interval of the
\* class overlaps it: the daily count alone is the ground
RejectedOnQuota(U, kelas, slot) ==
    /\ is_class_conflict(U, kelas, slot[1], slot[2])
    /\ ~is_class_conflict_NoDailyLimit(U, kelas, slot[1], slot[2])

\* C32: step 3 turns a slot down on the ground of the daily quota only when
\* the class of the record has 2 exams scheduled on the date of the slot; a
\* class with one exam on a date, filled in in the input, is not turned down
\* there.
C32_QuotaRejectionExact ==
    (AtRecord /\ InStep3(CurrentItem)) =>
        \A slot \in VisitedSlots(CurrentUsage, ALL_ROOMS, CurrentItem) :
            RejectedOnQuota(CurrentUsage, CurrentItem.kelas, slot)
                => Cardinality(ExamsOn(CurrentItem.kelas, DateOf(slot[1]))) >= 2

\* the quota test itself: a slot is turned down on that ground exactly when
\* class_daily_count holds 2 or more for the class and the date
QuotaFollowsDailyCount ==
    (AtRecord /\ InStep3(CurrentItem)) =>
        \A slot \in VisitedSlots(CurrentUsage, ALL_ROOMS, CurrentItem) :
            RejectedOnQuota(CurrentUsage, CurrentItem.kelas, slot)
                => GetCount(class_daily_count,
                            <<CurrentItem.kelas, StrftimeYMD(slot[1])>>) >= 2

(* ------------------ claims about the usage maps ------------------------ *)
\* the key of the usage maps for the slot and room of an output row
RoomKeyOf(row) ==
    <<StrftimeYMD(RowInterval(row)[1]),
      format_time_range(RowInterval(row)[1], RowInterval(row)[2]), row.RUANGAN>>

ClassDayKeyOf(row) == <<row.KELAS, StrftimeYMD(RowInterval(row)[1])>>

\* the processed records assigned to a (date, shift, room)
ProcessedAt(key) ==
    {j \in 1..Len(generated_assignments) :
        /\ RowInterval(generated_assignments[j]) # NoInterval
        /\ generated_assignments[j].RUANGAN # ""
        /\ RoomKeyOf(generated_assignments[j]) = key}

\* the processed records of a class on a date
ProcessedOfClassOn(key) ==
    {j \in 1..Len(generated_assignments) :
        /\ RowInterval(generated_assignments[j]) # NoInterval
        /\ generated_assignments[j].KELAS # ""
        /\ ClassDayKeyOf(generated_assignments[j]) = key}

RoomKeys ==
    DOMAIN room_usage
    \cup {RoomKeyOf(generated_assignments[j]) :
             j \in {k \in 1..Len(generated_assignments) :
                       /\ RowInterval(generated_assignments[k]) # NoInterval
                       /\ generated_assignments[k].RUANGAN # ""}}

ClassDayKeys ==
    DOMAIN class_daily_count
    \cup {ClassDayKeyOf(generated_assignments[j]) :
             j \in {k \in 1..Len(generated_assignments) :
                       /\ RowInterval(generated_assignments[k]) # NoInterval
                       /\ generated_assignments[k].KELAS # ""}}

RecordProcessed == pc \in {"loop", "done"} /\ Len(generated_assignments) >= 1

\* C33: once a record has been processed, room_usage holds for every
\* (date, shift, room) the number of processed records assigned to it, and
\* class_daily_count holds for every class and date the number of processed
\* records of the class on the date.
C33_UsageIndexConsistent ==
    RecordProcessed =>
        /\ \A key \in RoomKeys :
               GetCount(room_usage, key) = Cardinality(ProcessedAt(key))
        /\ \A key \in ClassDayKeys :
               GetCount(class_daily_count, key) = Cardinality(ProcessedOfClassOn(key))

\* the maps never hold less than the processed records
UsageIndexCoversProcessed ==
    RecordProcessed =>
        /\ \A key \in RoomKeys :
               GetCount(room_usage, key) >= Cardinality(ProcessedAt(key))
        /\ \A key \in ClassDayKeys :
               GetCount(class_daily_count, key) >= Cardinality(ProcessedOfClassOn(key))

(* ------------------ claims about requested rooms ----------------------- *)
\* the output row carries the room its input row asks for, or none
KeepsRequestedRoom(row) ==
    InputOf(row).ruangan # "" => row.RUANGAN \in {InputOf(row).ruangan, ""}

\* C34: for every input record that names a room, the room of its output row
\* is that room or empty; the allocator never puts another room in its place.
C34_RequestedRoomNeverReplaced ==
    \A j \in 1..Len(generated_assignments) :
        KeepsRequestedRoom(generated_assignments[j])

\* step 1, step 2 and the normal loop of step 3 keep the requested room; a
\* row that left step 3 with another room was paired into the auditorium
OnlyPairingReplacesRoom ==
    [][(AtRecord /\ CurrentItem.ruangan # ""
                /\ ~(InStep3(CurrentItem) /\ PairingIndex(CurrentUsage, CurrentItem) > 0))
          => KeepsRequestedRoom(NewRow)]_vars

\* a record that asked for an ordinary room and was placed in it
RequestedRoomGranted ==
    /\ AllocDone
    /\ \E j \in 1..Len(generated_assignments) :
           LET a == generated_assignments[j]
           IN /\ PlacedByStep3(a)
              /\ InputOf(a).ruangan = "GKU 1.01"
              /\ a.RUANGAN = "GKU 1.01"

(* ------------------ claims about the processing order ------------------ *)
\* a written exam that does not bring day, date and shift all three
IsWrittenWithoutPreset(it) ==
    IsUjianTulis(it.bentuk_ujian) /\ ~(it.hari # "" /\ it.tanggal # "" /\ it.shift # "")

Headcount(it) == parse_int_safe(it.jumlah_mhs)

\* the record written at position p of the output was processed p-th
ProcessedBefore(p, q) ==
    LET a == InputOf(generated_assignments[p])
        b == InputOf(generated_assignments[q])
        sameGroup == IsWrittenWithoutPreset(a) <=> IsWrittenWithoutPreset(b)
        samePrefix == Prefix2(a.kelas) = Prefix2(b.kelas)
    IN /\ ~(IsWrittenWithoutPreset(a) /\ ~IsWrittenWithoutPreset(b))
       /\ sameGroup => StrRank(Prefix2(a.kelas)) <= StrRank(Prefix2(b.kelas))
       /\ (sameGroup /\ samePrefix) => Headcount(a) >= Headcount(b)
       /\ (sameGroup /\ samePrefix /\ Headcount(a) = Headcount(b))
              => generated_assignments[p].idx < generated_assignments[q].idx

GroupOrderWitness ==
    /\ AllocDone
    /\ \E p, q \in 1..Len(generated_assignments) :
           /\ p < q
           /\ generated_assignments[p].idx > generated_assignments[q].idx
           /\ ~IsWrittenWithoutPreset(InputOf(generated_assignments[p]))
           /\ IsWrittenWithoutPreset(InputOf(generated_assignments[q]))

(* ------------------ claims about the conflict repair ------------------- *)
\* a round of the conflict repair that finds a slot for its row
FcReplaces ==
    /\ pc = "fcloop"
    /\ pos' = pos + 1
    /\ \E i \in 1..Len(fc_Slots(FcRowBefore)) :
           fc_RoomsAt(CurrentUsage, dosen_usage, ALL_ROOMS, FcRowBefore,
                      fc_Slots(FcRowBefore)[i]) # {}

\* the rows of the file that are not flagged for repair
FcUnflagged ==
    {i \in 1..Len(generated_assignments) : \A k \in 1..Len(order) : order[k] # i}

\* unflagged rows that overlap the re-placed row
FcOverlapping(row) ==
    {i \in FcUnflagged : RowsOverlap(generated_assignments[i], row)}

\* measured against the unflagged rows: the class of the row has no
\* overlapping exam and fewer than 2 exams that date, its lecturer has no
\* overlapping exam, its room is below capacity and not blacklisted
FcSlotIsFree(row) ==
    /\ RowInterval(row) # NoInterval
    /\ row.KELAS # "" =>
           /\ \A i \in FcOverlapping(row) : generated_assignments[i].KELAS # row.KELAS
           /\ Cardinality({i \in FcUnflagged :
                  /\ generated_assignments[i].KELAS = row.KELAS
                  /\ RowInterval(generated_assignments[i]) # NoInterval
                  /\ DateOf(RowInterval(generated_assignments[i])[1])
                         = DateOf(RowInterval(row)[1])}) < 2
    /\ row.NAMA_DOSEN # "" =>
           \A i \in FcOverlapping(row) :
               generated_assignments[i].NAMA_DOSEN # row.NAMA_DOSEN
    /\ Cardinality({i \in FcUnflagged :
           /\ generated_assignments[i].RUANGAN = row.RUANGAN
           /\ RowInterval(generated_assignments[i]) = RowInterval(row)})
           < (IF is_aula(row.RUANGAN) THEN 2 ELSE 1)
    /\ ~fb_is_room_blacklisted_on_date(row.RUANGAN, RowInterval(row)[1])

\* C36: every row the conflict repair re-places gets a slot in which its
\* class has no overlapping exam and fewer than 2 exams that date, its
\* lecturer has no overlapping exam, and its room is below capacity and not
\* blacklisted, measured against the rows that are not flagged.
C36_RepairIsConflictFree ==
    [][FcReplaces => FcSlotIsFree(FcRowAfter)]_vars

\* the same measured against the usage maps of the script, which hold the
\* unflagged rows that have a day name and the rows re-placed before
FcFreeInUsageMaps ==
    [][FcReplaces =>
          LET iv == RowInterval(FcRowAfter)
              date_key == StrftimeYMD(iv[1])
              shift_key == format_time_range(iv[1], iv[2])
          IN /\ ~fb_is_class_conflict(CurrentUsage, FcRowAfter.KELAS, iv[1], iv[2])
             /\ ~fc_is_dosen_conflict(dosen_usage, FcRowAfter.NAMA_DOSEN, iv[1], iv[2])
             /\ ~fc_is_room_conflict(CurrentUsage, FcRowAfter.RUANGAN, date_key, shift_key)
             /\ ~fb_is_room_blacklisted_on_date(FcRowAfter.RUANGAN, iv[1])]_vars

\* the days of iter_allowed_dates: the weekdays from START_DATE to END_DATE
AllowedDays == {DateOf(iter_allowed_dates[i]) : i \in 1..Len(iter_allowed_dates)}

\* C39: the date the conflict repair gives a re-placed row is one of the
\* allowed dates, a weekday from 2025-11-03 to 2025-11-07, whatever the date
\* of the row was before.
C39_RepairDateAllowed ==
    [][FcReplaces => StrptimeDate(FcRowAfter.TANGGAL) \in AllowedDays]_vars

\* a re-placed row whose date before the round was an allowed date gets an
\* allowed date
RepairKeepsAllowedDate ==
    [][(FcReplaces /\ StrptimeDate(FcRowBefore.TANGGAL) \in AllowedDays
                   /\ FcRowBefore.HARI # "")
          => StrptimeDate(FcRowAfter.TANGGAL) \in AllowedDays]_vars

(* ---------------- claims about what the repairs leave alone ------------- *)
\* the row carries the same cells as before outside day, date, shift and room
SameOtherCells(before, after) ==
    [after EXCEPT !.HARI = before.HARI, !.TANGGAL = before.TANGGAL,
                  !.SHIFT = before.SHIFT, !.RUANGAN = before.RUANGAN] = before

\* a row the first pass of fix_blacklisted_rooms lists: all four cells
\* filled, date and shift readable, room blacklisted on the date
FbFlagged(row) ==
    /\ row.HARI # "" /\ row.TANGGAL # "" /\ row.SHIFT # "" /\ row.RUANGAN # ""
    /\ RowInterval(row) # NoInterval
    /\ fb_is_room_blacklisted_on_date(row.RUANGAN, RowInterval(row)[1])

\* the second pass has a room for the row: in its own slot, or in a slot of
\* its date or of the allowed dates where its class is free
FbSlotFound(row) ==
    LET seats == parse_int_safe(row.JUMLAH_MAHASISWA)
        allow_aula == Lower(row.BENTUK_UJIAN) = "ujian tulis" /\ seats >= 40
        slots == <<RowInterval(row)>> \o generate_daily_shifts(RowInterval(row)[1])
                     \o NaturalOrderSlots
    IN \E k \in 1..Len(slots) :
          /\ k > 1 => ~fb_is_class_conflict(CurrentUsage, row.KELAS,
                                            slots[k][1], slots[k][2])
          /\ fb_pick_free_room(CurrentUsage, ALL_ROOMS, slots[k][1],
                               StrftimeYMD(slots[k][1]),
                               format_time_range(slots[k][1], slots[k][2]),
                               allow_aula, row.BENTUK_UJIAN, seats) # {NoRoom}

\* the conflict repair has a slot for the row
FcSlotFound(row) ==
    \E k \in 1..Len(fc_Slots(row)) :
        fc_RoomsAt(CurrentUsage, dosen_usage, ALL_ROOMS, row, fc_Slots(row)[k]) # {}

\* the row may be rewritten by the script that is running
MayBeRewritten(row) ==
    \/ pc \in {"fix", "fixloop"} /\ FbFlagged(row) /\ FbSlotFound(row)
    \/ pc \in {"fc", "fcloop"} /\ fc_IsConflicted(conflict_keys, row)
                               /\ FcSlotFound(row)

\* C37: a step of fix_conflicts or fix_blacklisted_rooms keeps the number of
\* rows and every cell other than day, date, shift and room; a row whose
\* day, date, shift or room changes was flagged for repair and had a
\* replacement slot, so unflagged rows and flagged rows without a slot are
\* written back as they were.
C37_RepairLeavesRestUnchanged ==
    [][/\ Len(generated_assignments') = Len(generated_assignments)
       /\ \A i \in 1..Len(generated_assignments) :
             /\ SameOtherCells(generated_assignments[i], generated_assignments'[i])
             /\ generated_assignments'[i] # generated_assignments[i]
                    => MayBeRewritten(generated_assignments[i])]_vars

\* every room of the roster is blacklisted on every date the row can go to
NoRoomAnywhere(row) ==
    \A k \in 1..Len(NaturalOrderSlots) : \A r \in 1..Len(ALL_ROOMS) :
        fb_is_room_blacklisted_on_date(ALL_ROOMS[r], NaturalOrderSlots[k][1])

\* the blacklist repair has ended with a flagged row it had no room for,
\* still in its blacklisted room, next to a row that was not flagged
C37_Witness ==
    /\ pc = "fixed"
    /\ \E i \in FixedRowIndices :
          /\ FbFlagged(generated_assignments[i])
          /\ NoRoomAnywhere(generated_assignments[i])
    /\ \E j \in 1..Len(generated_assignments) : j \notin FixedRowIndices

\* the conflict repair has ended with a flagged row it had no slot for next
\* to a row that was not flagged
FcKeptWithoutSlot ==
    /\ pc = "fcdone"
    /\ \E i \in 1..Len(order) :
          /\ fc_IsConflicted(conflict_keys, generated_assignments[order[i]])
          /\ NoRoomAnywhere(generated_assignments[order[i]])
    /\ FcUnflagged # {}

\* a round of either repair that rewrites its row
RepairRewrites ==
    /\ pc \in {"fixloop", "fcloop"}
    /\ generated_assignments'[order[pos]] # generated_assignments[order[pos]]

RepairNeverRewrites == [][~RepairRewrites]_vars

(* ----------------- claims about the blacklist repair ------------------- *)
\* a round of the second pass that reports its row as fixed
FbFixes ==
    /\ pc = "fixloop"
    /\ pos' = pos + 1
    /\ FbSlotFound(FbRowBefore)

\* the other rows of the written file in the room, date and shift of the row
FbOccupants(row) ==
    {j \in 1..Len(generated_assignments') :
        /\ j # order[pos]
        /\ generated_assignments'[j].TANGGAL = row.TANGGAL
        /\ generated_assignments'[j].SHIFT = row.SHIFT
        /\ generated_assignments'[j].RUANGAN = row.RUANGAN}

\* the room of the fixed row is not blacklisted on the row's date
FbRoomAllowed(row) ==
    /\ row.RUANGAN # NoRoom
    /\ RowInterval(row) # NoInterval
    /\ ~fb_is_room_blacklisted_on_date(row.RUANGAN, RowInterval(row)[1])

\* the room of the fixed row had no other row in the slot, the auditorium
\* at most one
FbRoomUnoccupied(row) ==
    Cardinality(FbOccupants(row)) < (IF is_aula(row.RUANGAN) THEN 2 ELSE 1)

\* pick_free_room has a room for the row in the row's own slot
FbRoomAtOriginalSlot(row) ==
    LET seats == parse_int_safe(row.JUMLAH_MAHASISWA)
    IN fb_pick_free_room(CurrentUsage, ALL_ROOMS, RowInterval(row)[1],
                         StrftimeYMD(RowInterval(row)[1]),
                         format_time_range(RowInterval(row)[1], RowInterval(row)[2]),
                         Lower(row.BENTUK_UJIAN) = "ujian tulis" /\ seats >= 40,
                         row.BENTUK_UJIAN, seats) # {NoRoom}

\* the fixed row is in its original day, date and shift
FbKeepsSlot ==
    /\ FbRowAfter.HARI = FbRowBefore.HARI
    /\ FbRowAfter.TANGGAL = FbRowBefore.TANGGAL
    /\ FbRowAfter.SHIFT = FbRowBefore.SHIFT

\* C38: a row that fix_blacklisted_rooms reports as fixed is in a room that
\* is not blacklisted on its new date and that no other row of the file
\* holds in its new slot (the auditorium: at most one other row); when a
\* free room exists in its original slot it keeps date and shift.
C38_FixedRoomFree ==
    [][FbFixes => /\ FbRoomAllowed(FbRowAfter)
                  /\ FbRoomUnoccupied(FbRowAfter)
                  /\ FbRoomAtOriginalSlot(FbRowBefore) => FbKeepsSlot]_vars

\* the parts of C38 that hold: the new room is not blacklisted, is below
\* capacity in the usage map of the script, and the slot is kept when
\* pick_free_room has a room in it
FbFixedRoomFreeInUsageMap ==
    [][FbFixes =>
          /\ FbRoomAllowed(FbRowAfter)
          /\ GetCount(room_usage, <<StrftimeYMD(RowInterval(FbRowAfter)[1]),
                                    FbRowAfter.SHIFT, FbRowAfter.RUANGAN>>)
                 < (IF is_aula(FbRowAfter.RUANGAN) THEN 2 ELSE 1)
          /\ FbRoomAtOriginalSlot(FbRowBefore) => FbKeepsSlot]_vars

\* a round that moves an oral exam away from a slot where the auditorium
\* is free
FbLeavesSlotWithFreeAula ==
    /\ FbFixes
    /\ ~FbKeepsSlot
    /\ \E r \in 1..Len(ALL_ROOMS) :
          /\ is_aula(ALL_ROOMS[r])
          /\ GetCount(room_usage, <<StrftimeYMD(RowInterval(FbRowBefore)[1]),
                                    FbRowBefore.SHIFT, ALL_ROOMS[r]>>) = 0

FbNeverLeavesSlotWithFreeAula == [][~FbLeavesSlotWithFreeAula]_vars

====
